---- MODULE Spec2Model ----
(***************************************************************************)
(* Group membership lifecycle engine of bmatch                             *)
(* (internal/service/group): CreateGroup, JoinGroup, ApplyToGroup and      *)
(* ApproveApplication running as concurrent calls against one PostgreSQL   *)
(* database.  Every call runs one transaction; the writes of its function  *)
(* reach the committed tables when the transaction ends, and only if it    *)
(* commits.                                                                *)
(* Discovery (DiscoverGroups, FindMatches, CalculateJaccardScore) is       *)
(* read-only and has its own specifications, MatchSpec and ScoreSpec.      *)
(* LiveSpec adds the fairness under which every call returns; StatsSpec    *)
(* is the counters of the user service (Increment... methods).             *)
(***************************************************************************)
EXTENDS Integers, Sequences, FiniteSets, TLC

\* ---------------------------------------------------------------- bounds
NumProcs == 2          \* concurrent callers (request goroutines)
NumUsers == 3          \* user ids 1..NumUsers
NumOwners == 1         \* users 1..NumOwners create groups
MaxGroups == 1         \* group ids the model hands out
MaxApps == 2           \* applications ever filed on one group
LiveGroups == 2        \* groups of the specification with fairness

Procs == 1..NumProcs
Users == 1..NumUsers
Owners == 1..NumOwners
GroupIDs == 1..MaxGroups

\* ------------------------------------------------------------- constants
JoinTypeOpen == "OPEN"
JoinTypeApplication == "APPLICATION"
StatusOpen == "OPEN"
StatusClosed == "CLOSED"
StatusCompleted == "COMPLETED"
RoleLeader == "LEADER"
RoleMember == "MEMBER"
ApplicationStatusPending == "PENDING"
ApplicationStatusApproved == "APPROVED"
ApplicationStatusRejected == "REJECTED"

ErrGroupNotFound == "GroupNotFound"
ErrGroupFull == "GroupFull"
ErrGroupNotOpen == "GroupNotOpen"
ErrInvalidJoinType == "InvalidJoinType"
ErrAlreadyMember == "AlreadyMember"
ErrNotGroupOwner == "NotGroupOwner"
ErrApplicationExists == "ApplicationExists"
ErrApplicationNotFound == "ApplicationNotFound"
ErrCannotApplyToOpenGroup == "CannotApplyToOpenGroup"
ErrCannotJoinApplicationGroup == "CannotJoinApplicationGroup"

\* errors that come from the database, not from the engine's checks
ErrStorage == "StorageError"                 \* connection error, cancelled context
ErrConstraint == "ConstraintViolation"       \* CHECK or PRIMARY KEY violated
ErrSerialization == "SerializationFailure"   \* SQLSTATE 40001
OK == "OK"
InfraErrors == {ErrStorage, ErrConstraint, ErrSerialization}

DefaultCapacity == 5
MinCapacity == 1       \* chk_capacity: capacity > 0
MaxCapacity == 10      \* chk_capacity: capacity <= 10

\* capacities and join types a CreateGroup request may carry
ReqCapacities == {0, 1, 2, 11}
ReqJoinTypes == {JoinTypeOpen, JoinTypeApplication, "INVITE"}

\* ------------------------------------------------------------ the state
VARIABLES
    groups,      \* committed table groups: id -> row, NoGroup when absent
    members,     \* committed table group_members: group id -> rows, by joined_at
    lock,        \* row lock of each groups row: holding caller, 0 when free
    nextID,      \* group ids handed out so far
    pc,          \* where each caller is
    call,        \* the operation a caller runs and its arguments
    pre,         \* what the committed tables said when JoinGroup was called
    local,       \* the *Group a caller read under the lock
    stale,       \* a waiting caller's snapshot predates a committed update
    result,      \* error (or OK) the call returns
    cacheDels,   \* cache.Del calls made by the caller's current call
    failedAt,    \* the database call of the current call that failed, "" if none
    table,       \* discovery: the groups table the candidate query runs on
    req,         \* discovery: userProfile.Tags and the filters of the request
    matches,     \* discovery: what FindMatches returned
    jaccard,     \* a direct call of CalculateJaccardScore and its result
    stats,       \* users.stats of one user: the three counters
    inc,         \* the Increment... call each caller runs on that user
    tally        \* increments begun, and completed per counter

evars == <<groups, members, lock, nextID, pc, call, pre, local, stale, result,
           cacheDels, failedAt>>
mvars == <<table, req, matches, jaccard>>
svars == <<stats, inc, tally>>
vars == <<evars, mvars, svars>>

NoGroup == [id |-> 0, owner_id |-> 0, capacity |-> 0, current_count |-> 0,
            join_type |-> "", status |-> "", applications |-> <<>>]
NoCall == [op |-> "", gid |-> 0, uid |-> 0, by |-> 0, approve |-> FALSE,
           cap |-> 0, jt |-> ""]
NoPre == [member |-> FALSE, count |-> 0]
NoTx == [rows |-> <<>>, grp |-> NoGroup, ins |-> NoGroup]

\* ------------------------------------------------------- the persistence
IsMemberNever(gid, uid) == FALSE

\* IsMember: SELECT EXISTS(... group_members WHERE group_id AND user_id),
\* run on the pool, outside the transaction: it reads the committed rows.
IsMember(gid, uid) ==
    \E i \in 1..Len(members[gid]) : members[gid][i].user_id = uid

\* GetMemberCount: SELECT COUNT(*) FROM group_members WHERE group_id
GetMemberCount(gid) == Len(members[gid])

\* chk_capacity and chk_count of table groups
ChkCapacity(g) == g.capacity >= MinCapacity /\ g.capacity <= MaxCapacity
ChkCount(g) == g.current_count >= 0 /\ g.current_count <= g.capacity

\* FOR UPDATE: the row lock is granted only when no transaction holds it
LockFreeUnlocked(gid) == TRUE
LockFree(gid) == lock[gid] = 0

\* AddMember inside transaction t: INSERT INTO group_members; the primary
\* key (group_id, user_id) rejects a second row of the same pair.
AddMember(t, gid, uid, role, fault) ==
    IF fault THEN [err |-> ErrStorage, tx |-> t]
    ELSE IF IsMember(gid, uid)
              \/ \E i \in 1..Len(t.rows) : t.rows[i].user_id = uid
         THEN [err |-> ErrConstraint, tx |-> t]
         ELSE [err |-> OK,
               tx |-> [t EXCEPT !.rows = Append(@, [user_id |-> uid, role |-> role])]]

\* UpdateGroup inside transaction t: UPDATE groups SET ... WHERE id; zero
\* rows affected is GroupNotFound.
UpdateGroup(t, g, fault) ==
    IF fault THEN [err |-> ErrStorage, tx |-> t]
    ELSE IF ~(ChkCapacity(g) /\ ChkCount(g)) THEN [err |-> ErrConstraint, tx |-> t]
    ELSE IF groups[g.id] = NoGroup THEN [err |-> ErrGroupNotFound, tx |-> t]
    ELSE [err |-> OK, tx |-> [t EXCEPT !.grp = g]]

\* CreateGroup inside transaction t: INSERT INTO groups
RepoCreateGroup(t, g, fault) ==
    IF fault THEN [err |-> ErrStorage, tx |-> t]
    ELSE IF ~(ChkCapacity(g) /\ ChkCount(g)) THEN [err |-> ErrConstraint, tx |-> t]
    ELSE [err |-> OK, tx |-> [t EXCEPT !.ins = g]]

\* WithTransaction: the writes of fn reach the tables only when fn returned
\* nil and the commit went through; on any error they are rolled back.
TxOutcome(t, err) == IF err = OK THEN t ELSE NoTx

Fail(e) == [err |-> e, tx |-> NoTx]

\* ------------------------------------------------------------ the engine
CreateFaults == {"none", "CreateGroup", "AddMember"}
JoinFaults == {"none", "IsMember", "AddMember", "UpdateGroup", "UpdateGroup2"}
ApplyFaults == {"none", "IsMember", "UpdateGroup"}
ApproveFaults == {"none", "AddMember", "UpdateGroup"}

\* CreateGroup without its validation of the join type
ValidJoinTypeAny(jt) == TRUE
ValidJoinType(jt) == jt = JoinTypeOpen \/ jt = JoinTypeApplication

\* CreateGroup storing a group that does not count its owner
NewGroupCountZero(id, ownerID, cap, jt) ==
    [id |-> id, owner_id |-> ownerID,
     capacity |-> IF cap = 0 THEN DefaultCapacity ELSE cap,
     current_count |-> 0, join_type |-> jt, status |-> StatusOpen,
     applications |-> <<>>]

\* the Group literal CreateGroup builds from the request
NewGroup(id, ownerID, cap, jt) ==
    [id |-> id, owner_id |-> ownerID,
     capacity |-> IF cap = 0 THEN DefaultCapacity ELSE cap,
     current_count |-> 1, join_type |-> jt, status |-> StatusOpen,
     applications |-> <<>>]

\* CreateGroup adding its owner with role MEMBER
CreateGroupTxOwnerMember(g, f) ==
    LET c == RepoCreateGroup(NoTx, g, f = "CreateGroup") IN
    IF c.err # OK THEN c
    ELSE AddMember(c.tx, g.id, g.owner_id, RoleMember, f = "AddMember")

\* CreateGroup not looking at the error of AddMember
CreateGroupTxIgnoreMemberErr(g, f) ==
    LET c == RepoCreateGroup(NoTx, g, f = "CreateGroup") IN
    IF c.err # OK THEN c
    ELSE [err |-> OK,
          tx |-> AddMember(c.tx, g.id, g.owner_id, RoleLeader, f = "AddMember").tx]

\* the function CreateGroup hands to WithTransaction
CreateGroupTx(g, f) ==
    LET c == RepoCreateGroup(NoTx, g, f = "CreateGroup") IN
    IF c.err # OK THEN c
    ELSE AddMember(c.tx, g.id, g.owner_id, RoleLeader, f = "AddMember")

\* step 4 of JoinGroup, step 5 of ApplyToGroup and of ApproveApplication
AtCapacityNever(g) == FALSE
AtCapacity(g) == g.current_count >= g.capacity

\* JoinGroup without step 7 (the group is never closed)
JoinGroupTxNoClose(g, uid, f) ==
    IF g.status # StatusOpen THEN Fail(ErrGroupNotOpen)
    ELSE IF g.join_type # JoinTypeOpen THEN Fail(ErrCannotJoinApplicationGroup)
    ELSE IF f = "IsMember" THEN Fail(ErrStorage)
    ELSE IF IsMember(g.id, uid) THEN Fail(ErrAlreadyMember)
    ELSE IF AtCapacity(g) THEN Fail(ErrGroupFull)
    ELSE LET a == AddMember(NoTx, g.id, uid, RoleMember, f = "AddMember") IN
         IF a.err # OK THEN a
         ELSE UpdateGroup(a.tx, [g EXCEPT !.current_count = @ + 1], f = "UpdateGroup")

\* JoinGroup without the status check of step 2
JoinGroupTxNoStatus(g, uid, f) ==
    IF g.join_type # JoinTypeOpen THEN Fail(ErrCannotJoinApplicationGroup)
    ELSE IF f = "IsMember" THEN Fail(ErrStorage)
    ELSE IF IsMember(g.id, uid) THEN Fail(ErrAlreadyMember)
    ELSE IF AtCapacity(g) THEN Fail(ErrGroupFull)
    ELSE LET a == AddMember(NoTx, g.id, uid, RoleMember, f = "AddMember") IN
         IF a.err # OK THEN a
         ELSE LET g1 == [g EXCEPT !.current_count = @ + 1]
                  u1 == UpdateGroup(a.tx, g1, f = "UpdateGroup")
              IN  IF u1.err # OK THEN u1
                  ELSE IF g1.current_count >= g1.capacity
                       THEN UpdateGroup(u1.tx, [g1 EXCEPT !.status = StatusClosed],
                                        f = "UpdateGroup2")
                       ELSE u1

\* JoinGroup without the join-type check of step 2
JoinGroupTxNoType(g, uid, f) ==
    IF g.status # StatusOpen THEN Fail(ErrGroupNotOpen)
    ELSE IF f = "IsMember" THEN Fail(ErrStorage)
    ELSE IF IsMember(g.id, uid) THEN Fail(ErrAlreadyMember)
    ELSE IF AtCapacity(g) THEN Fail(ErrGroupFull)
    ELSE LET a == AddMember(NoTx, g.id, uid, RoleMember, f = "AddMember") IN
         IF a.err # OK THEN a
         ELSE LET g1 == [g EXCEPT !.current_count = @ + 1]
                  u1 == UpdateGroup(a.tx, g1, f = "UpdateGroup")
              IN  IF u1.err # OK THEN u1
                  ELSE IF g1.current_count >= g1.capacity
                       THEN UpdateGroup(u1.tx, [g1 EXCEPT !.status = StatusClosed],
                                        f = "UpdateGroup2")
                       ELSE u1

\* JoinGroup not looking at the error of the UpdateGroup of step 6
JoinGroupTxIgnoreUpdateErr(g, uid, f) ==
    IF g.status # StatusOpen THEN Fail(ErrGroupNotOpen)
    ELSE IF g.join_type # JoinTypeOpen THEN Fail(ErrCannotJoinApplicationGroup)
    ELSE IF f = "IsMember" THEN Fail(ErrStorage)
    ELSE IF IsMember(g.id, uid) THEN Fail(ErrAlreadyMember)
    ELSE IF AtCapacity(g) THEN Fail(ErrGroupFull)
    ELSE LET a == AddMember(NoTx, g.id, uid, RoleMember, f = "AddMember") IN
         IF a.err # OK THEN a
         ELSE LET g1 == [g EXCEPT !.current_count = @ + 1]
                  u1 == UpdateGroup(a.tx, g1, f = "UpdateGroup")
              IN  IF g1.current_count >= g1.capacity
                  THEN UpdateGroup(u1.tx, [g1 EXCEPT !.status = StatusClosed],
                                   f = "UpdateGroup2")
                  ELSE [err |-> OK, tx |-> u1.tx]

\* the function JoinGroup hands to WithTransaction, g read under the lock
JoinGroupTx(g, uid, f) ==
    IF g.status # StatusOpen THEN Fail(ErrGroupNotOpen)
    ELSE IF g.join_type # JoinTypeOpen THEN Fail(ErrCannotJoinApplicationGroup)
    ELSE IF f = "IsMember" THEN Fail(ErrStorage)
    ELSE IF IsMember(g.id, uid) THEN Fail(ErrAlreadyMember)
    ELSE IF AtCapacity(g) THEN Fail(ErrGroupFull)
    ELSE LET a == AddMember(NoTx, g.id, uid, RoleMember, f = "AddMember") IN
         IF a.err # OK THEN a
         ELSE LET g1 == [g EXCEPT !.current_count = @ + 1]
                  u1 == UpdateGroup(a.tx, g1, f = "UpdateGroup")
              IN  IF u1.err # OK THEN u1
                  ELSE IF g1.current_count >= g1.capacity
                       THEN UpdateGroup(u1.tx, [g1 EXCEPT !.status = StatusClosed],
                                        f = "UpdateGroup2")
                       ELSE u1

HasPendingNever(g, uid) == FALSE

\* the loop of ApplyToGroup over group.Applications
HasPending(g, uid) ==
    \E i \in 1..Len(g.applications) :
        /\ g.applications[i].user_id = uid
        /\ g.applications[i].status = ApplicationStatusPending

\* ApplyToGroup without the join-type check of step 2
ApplyToGroupTxNoType(g, uid, f) ==
    IF g.status # StatusOpen THEN Fail(ErrGroupNotOpen)
    ELSE IF f = "IsMember" THEN Fail(ErrStorage)
    ELSE IF IsMember(g.id, uid) THEN Fail(ErrAlreadyMember)
    ELSE IF HasPending(g, uid) THEN Fail(ErrApplicationExists)
    ELSE IF AtCapacity(g) THEN Fail(ErrGroupFull)
    ELSE UpdateGroup(NoTx,
                     [g EXCEPT !.applications =
                          Append(@, [user_id |-> uid,
                                     status |-> ApplicationStatusPending])],
                     f = "UpdateGroup")

\* ApplyToGroup putting the new application at the head of the list
ApplyToGroupTxPrepend(g, uid, f) ==
    IF g.status # StatusOpen THEN Fail(ErrGroupNotOpen)
    ELSE IF g.join_type # JoinTypeApplication THEN Fail(ErrCannotApplyToOpenGroup)
    ELSE IF f = "IsMember" THEN Fail(ErrStorage)
    ELSE IF IsMember(g.id, uid) THEN Fail(ErrAlreadyMember)
    ELSE IF HasPending(g, uid) THEN Fail(ErrApplicationExists)
    ELSE IF AtCapacity(g) THEN Fail(ErrGroupFull)
    ELSE UpdateGroup(NoTx,
                     [g EXCEPT !.applications =
                          <<[user_id |-> uid,
                             status |-> ApplicationStatusPending]>> \o @],
                     f = "UpdateGroup")

\* ApplyToGroup without the membership check of step 3
ApplyToGroupTxNoMember(g, uid, f) ==
    IF g.status # StatusOpen THEN Fail(ErrGroupNotOpen)
    ELSE IF g.join_type # JoinTypeApplication THEN Fail(ErrCannotApplyToOpenGroup)
    ELSE IF HasPending(g, uid) THEN Fail(ErrApplicationExists)
    ELSE IF AtCapacity(g) THEN Fail(ErrGroupFull)
    ELSE UpdateGroup(NoTx,
                     [g EXCEPT !.applications =
                          Append(@, [user_id |-> uid,
                                     status |-> ApplicationStatusPending])],
                     f = "UpdateGroup")

\* ApplyToGroup without the capacity check of step 5
ApplyToGroupTxNoCapacity(g, uid, f) ==
    IF g.status # StatusOpen THEN Fail(ErrGroupNotOpen)
    ELSE IF g.join_type # JoinTypeApplication THEN Fail(ErrCannotApplyToOpenGroup)
    ELSE IF f = "IsMember" THEN Fail(ErrStorage)
    ELSE IF IsMember(g.id, uid) THEN Fail(ErrAlreadyMember)
    ELSE IF HasPending(g, uid) THEN Fail(ErrApplicationExists)
    ELSE UpdateGroup(NoTx,
                     [g EXCEPT !.applications =
                          Append(@, [user_id |-> uid,
                                     status |-> ApplicationStatusPending])],
                     f = "UpdateGroup")

\* ApplyToGroup whose loop of step 4 does not look at app.Status
ApplyToGroupTxAnyStatus(g, uid, f) ==
    IF g.status # StatusOpen THEN Fail(ErrGroupNotOpen)
    ELSE IF g.join_type # JoinTypeApplication THEN Fail(ErrCannotApplyToOpenGroup)
    ELSE IF f = "IsMember" THEN Fail(ErrStorage)
    ELSE IF IsMember(g.id, uid) THEN Fail(ErrAlreadyMember)
    ELSE IF \E i \in 1..Len(g.applications) : g.applications[i].user_id = uid
         THEN Fail(ErrApplicationExists)
    ELSE IF AtCapacity(g) THEN Fail(ErrGroupFull)
    ELSE UpdateGroup(NoTx,
                     [g EXCEPT !.applications =
                          Append(@, [user_id |-> uid,
                                     status |-> ApplicationStatusPending])],
                     f = "UpdateGroup")

\* the function ApplyToGroup hands to WithTransaction
ApplyToGroupTx(g, uid, f) ==
    IF g.status # StatusOpen THEN Fail(ErrGroupNotOpen)
    ELSE IF g.join_type # JoinTypeApplication THEN Fail(ErrCannotApplyToOpenGroup)
    ELSE IF f = "IsMember" THEN Fail(ErrStorage)
    ELSE IF IsMember(g.id, uid) THEN Fail(ErrAlreadyMember)
    ELSE IF HasPending(g, uid) THEN Fail(ErrApplicationExists)
    ELSE IF AtCapacity(g) THEN Fail(ErrGroupFull)
    ELSE UpdateGroup(NoTx,
                     [g EXCEPT !.applications =
                          Append(@, [user_id |-> uid,
                                     status |-> ApplicationStatusPending])],
                     f = "UpdateGroup")

\* the loop of ApproveApplication without its test of app.Status
ApplicationIndexAnyStatus(g, uid) ==
    IF \E i \in 1..Len(g.applications) : g.applications[i].user_id = uid
    THEN CHOOSE i \in 1..Len(g.applications) :
            /\ g.applications[i].user_id = uid
            /\ \A j \in 1..(i - 1) : g.applications[j].user_id # uid
    ELSE 0

\* the loop of ApproveApplication: index of the first PENDING application of
\* the applicant, 0 when there is none (applicationIndex == -1)
ApplicationIndex(g, uid) ==
    IF HasPending(g, uid)
    THEN CHOOSE i \in 1..Len(g.applications) :
            /\ g.applications[i].user_id = uid
            /\ g.applications[i].status = ApplicationStatusPending
            /\ \A j \in 1..(i - 1) :
                  ~(/\ g.applications[j].user_id = uid
                    /\ g.applications[j].status = ApplicationStatusPending)
    ELSE 0

\* ApproveApplication without step 8 (the full group stays open)
ApproveApplicationTxNoClose(g, applicant, ownerID, approve, f) ==
    IF g.owner_id # ownerID THEN Fail(ErrNotGroupOwner)
    ELSE LET i == ApplicationIndex(g, applicant) IN
    IF i = 0 THEN Fail(ErrApplicationNotFound)
    ELSE IF approve
    THEN LET ga == [g EXCEPT !.applications[i].status = ApplicationStatusApproved] IN
         IF AtCapacity(ga) THEN Fail(ErrGroupFull)
         ELSE LET a == AddMember(NoTx, g.id, applicant, RoleMember, f = "AddMember") IN
              IF a.err # OK THEN a
              ELSE LET g1 == [ga EXCEPT !.current_count = @ + 1]
                   IN  UpdateGroup(a.tx, g1, f = "UpdateGroup")
    ELSE UpdateGroup(NoTx,
                     [g EXCEPT !.applications[i].status = ApplicationStatusRejected],
                     f = "UpdateGroup")

\* ApproveApplication rejecting every PENDING application of the group
ApproveApplicationTxRejectAll(g, applicant, ownerID, approve, f) ==
    IF g.owner_id # ownerID THEN Fail(ErrNotGroupOwner)
    ELSE LET i == ApplicationIndex(g, applicant) IN
    IF i = 0 THEN Fail(ErrApplicationNotFound)
    ELSE IF approve
    THEN LET ga == [g EXCEPT !.applications[i].status = ApplicationStatusApproved] IN
         IF AtCapacity(ga) THEN Fail(ErrGroupFull)
         ELSE LET a == AddMember(NoTx, g.id, applicant, RoleMember, f = "AddMember") IN
              IF a.err # OK THEN a
              ELSE LET g1 == [ga EXCEPT !.current_count = @ + 1]
                       g2 == IF g1.current_count >= g1.capacity
                             THEN [g1 EXCEPT !.status = StatusClosed] ELSE g1
                   IN  UpdateGroup(a.tx, g2, f = "UpdateGroup")
    ELSE UpdateGroup(NoTx,
                     [g EXCEPT !.applications =
                         [j \in 1..Len(@) |->
                             IF @[j].status = ApplicationStatusPending
                             THEN [@[j] EXCEPT !.status = ApplicationStatusRejected]
                             ELSE @[j]]],
                     f = "UpdateGroup")

\* ApproveApplication without the owner check of step 2
ApproveApplicationTxNoOwner(g, applicant, ownerID, approve, f) ==
    LET i == ApplicationIndex(g, applicant) IN
    IF i = 0 THEN Fail(ErrApplicationNotFound)
    ELSE IF approve
    THEN LET ga == [g EXCEPT !.applications[i].status = ApplicationStatusApproved] IN
         IF AtCapacity(ga) THEN Fail(ErrGroupFull)
         ELSE LET a == AddMember(NoTx, g.id, applicant, RoleMember, f = "AddMember") IN
              IF a.err # OK THEN a
              ELSE LET g1 == [ga EXCEPT !.current_count = @ + 1]
                       g2 == IF g1.current_count >= g1.capacity
                             THEN [g1 EXCEPT !.status = StatusClosed] ELSE g1
                   IN  UpdateGroup(a.tx, g2, f = "UpdateGroup")
    ELSE UpdateGroup(NoTx,
                     [g EXCEPT !.applications[i].status = ApplicationStatusRejected],
                     f = "UpdateGroup")

\* ApproveApplication whose rejection reopens the group
ApproveApplicationTxReopen(g, applicant, ownerID, approve, f) ==
    IF g.owner_id # ownerID THEN Fail(ErrNotGroupOwner)
    ELSE LET i == ApplicationIndex(g, applicant) IN
    IF i = 0 THEN Fail(ErrApplicationNotFound)
    ELSE IF approve
    THEN LET ga == [g EXCEPT !.applications[i].status = ApplicationStatusApproved] IN
         IF AtCapacity(ga) THEN Fail(ErrGroupFull)
         ELSE LET a == AddMember(NoTx, g.id, applicant, RoleMember, f = "AddMember") IN
              IF a.err # OK THEN a
              ELSE LET g1 == [ga EXCEPT !.current_count = @ + 1]
                       g2 == IF g1.current_count >= g1.capacity
                             THEN [g1 EXCEPT !.status = StatusClosed] ELSE g1
                   IN  UpdateGroup(a.tx, g2, f = "UpdateGroup")
    ELSE UpdateGroup(NoTx,
                     [g EXCEPT !.applications[i].status = ApplicationStatusRejected,
                               !.status = StatusOpen],
                     f = "UpdateGroup")

\* the function ApproveApplication hands to WithTransaction
ApproveApplicationTx(g, applicant, ownerID, approve, f) ==
    IF g.owner_id # ownerID THEN Fail(ErrNotGroupOwner)
    ELSE LET i == ApplicationIndex(g, applicant) IN
    IF i = 0 THEN Fail(ErrApplicationNotFound)
    ELSE IF approve
    THEN LET ga == [g EXCEPT !.applications[i].status = ApplicationStatusApproved] IN
         IF AtCapacity(ga) THEN Fail(ErrGroupFull)
         ELSE LET a == AddMember(NoTx, g.id, applicant, RoleMember, f = "AddMember") IN
              IF a.err # OK THEN a
              ELSE LET g1 == [ga EXCEPT !.current_count = @ + 1]
                       g2 == IF g1.current_count >= g1.capacity
                             THEN [g1 EXCEPT !.status = StatusClosed] ELSE g1
                   IN  UpdateGroup(a.tx, g2, f = "UpdateGroup")
    ELSE UpdateGroup(NoTx,
                     [g EXCEPT !.applications[i].status = ApplicationStatusRejected],
                     f = "UpdateGroup")

\* -------------------------------------------------------------- actions
NoReq == [tags |-> <<>>, join_type |-> "", limit |-> 0]
NoMatches == [done |-> FALSE, list |-> <<>>]
NoScore == [a |-> <<>>, b |-> <<>>, done |-> FALSE, num |-> 0, den |-> 1]

\* no discovery request and no score computation is going on
MatcherIdle ==
    /\ table = <<>>
    /\ req = NoReq
    /\ matches = NoMatches
    /\ jaccard = NoScore

\* the Stats of a user: GroupsJoined, GroupsCreated, GroupsCompleted
Counters == {"groups_joined", "groups_created", "groups_completed"}
ZeroStats == [c \in Counters |-> 0]
NoInc == [pc |-> "idle", counter |-> "", stats |-> ZeroStats]

\* the user's row holds its default stats and no increment is going on
StatsIdle ==
    /\ stats = ZeroStats
    /\ inc = [p \in Procs |-> NoInc]
    /\ tally = [begun |-> 0, done |-> ZeroStats]

\* empty tables, no call in progress
EngineIdle ==
    /\ groups = [g \in GroupIDs |-> NoGroup]
    /\ members = [g \in GroupIDs |-> <<>>]
    /\ lock = [g \in GroupIDs |-> 0]
    /\ nextID = 0
    /\ pc = [p \in Procs |-> "idle"]
    /\ call = [p \in Procs |-> NoCall]
    /\ pre = [p \in Procs |-> NoPre]
    /\ local = [p \in Procs |-> NoGroup]
    /\ stale = [p \in Procs |-> FALSE]
    /\ result = [p \in Procs |-> ""]
    /\ cacheDels = [p \in Procs |-> 0]
    /\ failedAt = [p \in Procs |-> ""]

Init == EngineIdle /\ MatcherIdle /\ StatsIdle

\* what the committed tables say about (gid, uid) when a call is made
Observed(gid, uid) ==
    [member |-> IsMember(gid, uid), count |-> groups[gid].current_count]

\* applications on gid that calls in flight may still append
ApplyInFlight(gid) ==
    Cardinality({q \in Procs : /\ pc[q] \in {"begin", "wait", "locked"}
                               /\ call[q].op = "ApplyToGroup"
                               /\ call[q].gid = gid})

\* the tables after the writes w of one transaction are made durable
Written(w) ==
    [g \in DOMAIN groups |->
        IF w.ins.id = g THEN w.ins
        ELSE IF w.grp.id = g THEN w.grp
        ELSE groups[g]]

Inserted(w, gid) ==
    [g \in DOMAIN members |-> IF g = gid THEN members[g] \o w.rows ELSE members[g]]

Released(p) == [g \in DOMAIN lock |-> IF lock[g] = p THEN 0 ELSE lock[g]]

\* `if err != nil { log; return err }` after WithTransaction: the method hands
\* the error to its caller, whatever it is; it does not run the transaction
\* again.  The value is the caller's next position.
\* mutations: a method that runs the transaction again after a transient
\* error; a method that deletes the cache entry before looking at the error
OnTxErrorRetry(err) == IF err \in InfraErrors THEN "begin" ELSE "done"
OnTxErrorThenDel(err) == "committed"
OnTxError(err) == "done"

\* the database call at which the fault injected into a transaction struck:
\* fault point f was reached when the outcome r differs from the outcome r0
\* of the same transaction without a fault; a clean fn may still fail to commit
Struck(r, r0, f, cf) ==
    IF r # r0 THEN f
    ELSE IF cf /\ r.err = OK THEN "Commit" ELSE ""

\* end of WithTransaction for caller p whose fn returned r: COMMIT after a
\* clean return (the commit itself may fail), ROLLBACK after an error;
\* either way the row lock is released.  A committed update of the groups
\* row outdates the snapshot of every statement waiting for its lock.
EndTransaction(p, r, commitFault) ==
    LET err == IF r.err # OK THEN r.err
               ELSE IF commitFault THEN ErrStorage ELSE OK
        w == TxOutcome(r.tx, err)
        gid == call[p].gid
    IN  /\ groups' = Written(w)
        /\ members' = Inserted(w, gid)
        /\ stale' = [q \in Procs |->
                        IF q # p /\ pc[q] = "wait" /\ call[q].gid = gid
                           /\ w.grp # NoGroup
                        THEN TRUE ELSE stale[q]]
        /\ result' = [result EXCEPT ![p] = err]
        /\ pc' = [pc EXCEPT ![p] = IF err = OK THEN "committed" ELSE OnTxError(err)]
        /\ lock' = Released(p)

\* CreateGroup up to the call of WithTransaction: validation, default
\* capacity, fresh id
CreateGroupCall(p, ownerID, cap, jt) ==
    /\ pc[p] = "idle"
    /\ nextID < MaxGroups
    /\ IF ~ValidJoinType(jt)
       THEN /\ pc' = [pc EXCEPT ![p] = "done"]
            /\ result' = [result EXCEPT ![p] = ErrInvalidJoinType]
            /\ call' = [call EXCEPT ![p] = [NoCall EXCEPT !.op = "CreateGroup",
                                              !.uid = ownerID, !.cap = cap, !.jt = jt]]
            /\ UNCHANGED nextID
       ELSE /\ pc' = [pc EXCEPT ![p] = "begin"]
            /\ nextID' = nextID + 1
            /\ call' = [call EXCEPT ![p] = [NoCall EXCEPT !.op = "CreateGroup",
                                              !.gid = nextID + 1, !.uid = ownerID,
                                              !.cap = cap, !.jt = jt]]
            /\ UNCHANGED result
    /\ UNCHANGED <<groups, members, lock, pre, local, stale, cacheDels, failedAt>>
    /\ UNCHANGED <<mvars, svars>>

\* the READ COMMITTED transaction of CreateGroup
CreateGroupBody(p) ==
    /\ pc[p] = "begin"
    /\ call[p].op = "CreateGroup"
    /\ \E f \in CreateFaults, cf \in BOOLEAN :
          LET g == NewGroup(call[p].gid, call[p].uid, call[p].cap, call[p].jt)
              r == CreateGroupTx(g, f)
          IN  /\ EndTransaction(p, r, cf)
              /\ failedAt' = [failedAt EXCEPT ![p] = Struck(r, CreateGroupTx(g, "none"), f, cf)]
    /\ UNCHANGED <<nextID, call, pre, local, cacheDels>>
    /\ UNCHANGED <<mvars, svars>>

JoinGroupCall(p, gid, uid) ==
    /\ pc[p] = "idle"
    /\ call' = [call EXCEPT ![p] = [NoCall EXCEPT !.op = "JoinGroup",
                                      !.gid = gid, !.uid = uid]]
    /\ pre' = [pre EXCEPT ![p] = Observed(gid, uid)]
    /\ pc' = [pc EXCEPT ![p] = "begin"]
    /\ UNCHANGED <<groups, members, lock, nextID, local, stale, result, cacheDels, failedAt>>
    /\ UNCHANGED <<mvars, svars>>

ApplyToGroupCall(p, gid, uid) ==
    /\ pc[p] = "idle"
    /\ Len(groups[gid].applications) + ApplyInFlight(gid) < MaxApps
    /\ call' = [call EXCEPT ![p] = [NoCall EXCEPT !.op = "ApplyToGroup",
                                      !.gid = gid, !.uid = uid]]
    /\ pc' = [pc EXCEPT ![p] = "begin"]
    /\ UNCHANGED <<groups, members, lock, nextID, pre, local, stale, result,
                   cacheDels, failedAt>>
    /\ UNCHANGED <<mvars, svars>>

ApproveApplicationCall(p, gid, applicant, ownerID, approve) ==
    /\ pc[p] = "idle"
    /\ call' = [call EXCEPT ![p] = [NoCall EXCEPT !.op = "ApproveApplication",
                                      !.gid = gid, !.uid = applicant,
                                      !.by = ownerID, !.approve = approve]]
    /\ pc' = [pc EXCEPT ![p] = "begin"]
    /\ UNCHANGED <<groups, members, lock, nextID, pre, local, stale, result,
                   cacheDels, failedAt>>
    /\ UNCHANGED <<mvars, svars>>

\* GetGroupWithLock that takes sql.ErrNoRows for a row: the caller goes on
\* with the zero Group
GetGroupWithLockNoRows(p) ==
    /\ pc[p] = "begin"
    /\ call[p].op # "CreateGroup"
    /\ LET gid == call[p].gid IN
       \E fault \in BOOLEAN :
          IF fault
          THEN /\ EndTransaction(p, Fail(ErrStorage), FALSE)
               /\ failedAt' = [failedAt EXCEPT ![p] = "GetGroupWithLock"]
               /\ UNCHANGED local
          ELSE IF LockFree(gid)
          THEN /\ pc' = [pc EXCEPT ![p] = "locked"]
               /\ lock' = [lock EXCEPT ![gid] = p]
               /\ local' = [local EXCEPT ![p] = groups[gid]]
               /\ UNCHANGED <<groups, members, result, stale, failedAt>>
          ELSE /\ pc' = [pc EXCEPT ![p] = "wait"]
               /\ stale' = [stale EXCEPT ![p] = FALSE]
               /\ UNCHANGED <<groups, members, lock, local, result, failedAt>>
    /\ UNCHANGED <<nextID, call, pre, cacheDels>>
    /\ UNCHANGED <<mvars, svars>>

\* GetGroupWithLock: SELECT ... FOR UPDATE as first statement of the
\* SERIALIZABLE transaction.  No row: GroupNotFound, and fn returns it, so
\* the transaction rolls back.  Row locked by another transaction: the
\* statement waits.
GetGroupWithLock(p) ==
    /\ pc[p] = "begin"
    /\ call[p].op # "CreateGroup"
    /\ LET gid == call[p].gid IN
       \E fault \in BOOLEAN :
          IF fault
          THEN /\ EndTransaction(p, Fail(ErrStorage), FALSE)
               /\ failedAt' = [failedAt EXCEPT ![p] = "GetGroupWithLock"]
               /\ UNCHANGED local
          ELSE IF groups[gid] = NoGroup
          THEN /\ EndTransaction(p, Fail(ErrGroupNotFound), FALSE)
               /\ UNCHANGED <<local, failedAt>>
          ELSE IF LockFree(gid)
          THEN /\ pc' = [pc EXCEPT ![p] = "locked"]
               /\ lock' = [lock EXCEPT ![gid] = p]
               /\ local' = [local EXCEPT ![p] = groups[gid]]
               /\ UNCHANGED <<groups, members, result, stale, failedAt>>
          ELSE /\ pc' = [pc EXCEPT ![p] = "wait"]
               /\ stale' = [stale EXCEPT ![p] = FALSE]
               /\ UNCHANGED <<groups, members, lock, local, result, failedAt>>
    /\ UNCHANGED <<nextID, call, pre, cacheDels>>
    /\ UNCHANGED <<mvars, svars>>

\* the waiting FOR UPDATE is woken when the lock is released: under
\* SERIALIZABLE it fails with a serialization failure when the row was
\* updated by a transaction that committed after the statement began.
LockGranted(p) ==
    /\ pc[p] = "wait"
    /\ LET gid == call[p].gid IN
       /\ LockFree(gid)
       /\ IF stale[p]
          THEN /\ pc' = [pc EXCEPT ![p] = OnTxError(ErrSerialization)]
               /\ result' = [result EXCEPT ![p] = ErrSerialization]
               /\ UNCHANGED <<lock, local>>
          ELSE /\ pc' = [pc EXCEPT ![p] = "locked"]
               /\ lock' = [lock EXCEPT ![gid] = p]
               /\ local' = [local EXCEPT ![p] = groups[gid]]
               /\ UNCHANGED result
    /\ stale' = [stale EXCEPT ![p] = FALSE]
    /\ UNCHANGED <<groups, members, nextID, call, pre, cacheDels, failedAt>>
    /\ UNCHANGED <<mvars, svars>>

\* the rest of the SERIALIZABLE transaction of JoinGroup, under the lock
JoinGroupBody(p) ==
    /\ pc[p] = "locked"
    /\ call[p].op = "JoinGroup"
    /\ \E f \in JoinFaults, cf \in BOOLEAN :
          LET r == JoinGroupTx(local[p], call[p].uid, f)
          IN  /\ EndTransaction(p, r, cf)
              /\ failedAt' = [failedAt EXCEPT ![p] =
                              Struck(r, JoinGroupTx(local[p], call[p].uid, "none"), f, cf)]
    /\ UNCHANGED <<nextID, call, pre, local, cacheDels>>
    /\ UNCHANGED <<mvars, svars>>

ApplyToGroupBody(p) ==
    /\ pc[p] = "locked"
    /\ call[p].op = "ApplyToGroup"
    /\ \E f \in ApplyFaults, cf \in BOOLEAN :
          LET r == ApplyToGroupTx(local[p], call[p].uid, f)
          IN  /\ EndTransaction(p, r, cf)
              /\ failedAt' = [failedAt EXCEPT ![p] =
                              Struck(r, ApplyToGroupTx(local[p], call[p].uid, "none"), f, cf)]
    /\ UNCHANGED <<nextID, call, pre, local, cacheDels>>
    /\ UNCHANGED <<mvars, svars>>

ApproveApplicationBody(p) ==
    /\ pc[p] = "locked"
    /\ call[p].op = "ApproveApplication"
    /\ \E f \in ApproveFaults, cf \in BOOLEAN :
          LET c == call[p]
              r == ApproveApplicationTx(local[p], c.uid, c.by, c.approve, f)
          IN  /\ EndTransaction(p, r, cf)
              /\ failedAt' = [failedAt EXCEPT ![p] =
                              Struck(r, ApproveApplicationTx(local[p], c.uid, c.by,
                                                             c.approve, "none"), f, cf)]
    /\ UNCHANGED <<nextID, call, pre, local, cacheDels>>
    /\ UNCHANGED <<mvars, svars>>

\* the rest of the service method after WithTransaction returned nil:
\* JoinGroup and ApproveApplication delete the cache entry of the group
InvalidatesCache(op) == op \in {"JoinGroup", "ApproveApplication"}

AfterCommit(p) ==
    /\ pc[p] = "committed"
    /\ cacheDels' = [cacheDels EXCEPT ![p] =
                        IF InvalidatesCache(call[p].op) THEN @ + 1 ELSE @]
    /\ pc' = [pc EXCEPT ![p] = "done"]
    /\ UNCHANGED <<groups, members, lock, nextID, call, pre, local, stale, result,
                   failedAt>>
    /\ UNCHANGED <<mvars, svars>>

\* the caller has its answer and may call again
Return(p) ==
    /\ pc[p] = "done"
    /\ pc' = [pc EXCEPT ![p] = "idle"]
    /\ call' = [call EXCEPT ![p] = NoCall]
    /\ pre' = [pre EXCEPT ![p] = NoPre]
    /\ local' = [local EXCEPT ![p] = NoGroup]
    /\ result' = [result EXCEPT ![p] = ""]
    /\ cacheDels' = [cacheDels EXCEPT ![p] = 0]
    /\ failedAt' = [failedAt EXCEPT ![p] = ""]
    /\ UNCHANGED <<groups, members, lock, nextID, stale>>
    /\ UNCHANGED <<mvars, svars>>

\* (applicant, ownerID, approve) of the ApproveApplication calls made
ApproveInputs ==
    {<<u, o, a>> : u \in Users, o \in Owners, a \in BOOLEAN}
        \cup {<<NumOwners + 1, NumOwners + 1, a>> : a \in BOOLEAN}

Next ==
    \/ \E p \in Procs, u \in Owners, c \in ReqCapacities, jt \in ReqJoinTypes :
          CreateGroupCall(p, u, c, jt)
    \/ \E p \in Procs : CreateGroupBody(p)
    \/ \E p \in Procs, g \in GroupIDs, u \in Users : JoinGroupCall(p, g, u)
    \/ \E p \in Procs, g \in GroupIDs, u \in Users : ApplyToGroupCall(p, g, u)
    \/ \E p \in Procs, g \in GroupIDs, i \in ApproveInputs :
          ApproveApplicationCall(p, g, i[1], i[2], i[3])
    \/ \E p \in Procs : GetGroupWithLock(p)
    \/ \E p \in Procs : LockGranted(p)
    \/ \E p \in Procs : JoinGroupBody(p)
    \/ \E p \in Procs : ApplyToGroupBody(p)
    \/ \E p \in Procs : ApproveApplicationBody(p)
    \/ \E p \in Procs : AfterCommit(p)
    \/ \E p \in Procs : Return(p)

Spec == Init /\ [][Next]_vars

TypeOK ==
    /\ nextID \in 0..MaxGroups
    /\ \A p \in Procs : pc[p] \in {"idle", "begin", "wait", "locked", "committed", "done"}

\* ------------------------------------------------- calls under fairness
\* Whether every call returns is checked on LiveGroups groups that exist from
\* the start, the odd ones of join type OPEN, the even ones APPLICATION, all
\* created with capacity 2 by user 1; both callers act for the first user
\* who is no owner, joining the former and applying to the latter, or for
\* the owner deciding on the application.
LiveGroupIDs == 1..LiveGroups
LiveUsers == {NumOwners + 1}

LiveGroup(g) ==
    NewGroup(g, 1, 2, IF g % 2 = 1 THEN JoinTypeOpen ELSE JoinTypeApplication)

LiveInit ==
    /\ groups = [g \in LiveGroupIDs |-> LiveGroup(g)]
    /\ members = [g \in LiveGroupIDs |->
                     <<[user_id |-> LiveGroup(g).owner_id, role |-> RoleLeader]>>]
    /\ lock = [g \in LiveGroupIDs |-> 0]
    /\ nextID = LiveGroups
    /\ pc = [p \in Procs |-> "idle"]
    /\ call = [p \in Procs |-> NoCall]
    /\ pre = [p \in Procs |-> NoPre]
    /\ local = [p \in Procs |-> NoGroup]
    /\ stale = [p \in Procs |-> FALSE]
    /\ result = [p \in Procs |-> ""]
    /\ cacheDels = [p \in Procs |-> 0]
    /\ failedAt = [p \in Procs |-> ""]
    /\ MatcherIdle
    /\ StatsIdle

LiveNext ==
    \/ \E p \in Procs, g \in LiveGroupIDs, u \in LiveUsers :
          groups[g].join_type = JoinTypeOpen /\ JoinGroupCall(p, g, u)
    \/ \E p \in Procs, g \in LiveGroupIDs, u \in LiveUsers :
          groups[g].join_type = JoinTypeApplication /\ ApplyToGroupCall(p, g, u)
    \/ \E p \in Procs, g \in LiveGroupIDs, u \in LiveUsers, a \in BOOLEAN :
          /\ groups[g].join_type = JoinTypeApplication
          /\ ApproveApplicationCall(p, g, u, groups[g].owner_id, a)
    \/ \E p \in Procs : GetGroupWithLock(p)
    \/ \E p \in Procs : LockGranted(p)
    \/ \E p \in Procs : JoinGroupBody(p)
    \/ \E p \in Procs : ApplyToGroupBody(p)
    \/ \E p \in Procs : ApproveApplicationBody(p)
    \/ \E p \in Procs : AfterCommit(p)
    \/ \E p \in Procs : Return(p)

\* a request goroutine that is running is scheduled again and the database
\* answers each statement it is sent (weak fairness of every step of a call
\* in progress); a statement waiting for a row lock is woken when the lock
\* is released and is not overtaken for ever by later requests (strong
\* fairness of the grant).  Nothing obliges a caller to call again.
LiveFairness ==
    \A p \in Procs :
        /\ WF_vars(GetGroupWithLock(p))
        /\ SF_vars(LockGranted(p))
        /\ WF_vars(JoinGroupBody(p))
        /\ WF_vars(ApplyToGroupBody(p))
        /\ WF_vars(ApproveApplicationBody(p))
        /\ WF_vars(AfterCommit(p))

LiveSpec == LiveInit /\ [][LiveNext]_vars /\ LiveFairness

\* ------------------------------------------------------- user statistics
\* IncrementGroupsJoined, IncrementGroupsCreated and IncrementGroupsCompleted
\* of the user service, called by concurrent requests for one user.  Each is
\* two statements on the pool, outside any transaction: GetUserByID reads
\* the row, UpdateUserStats writes the whole stats column.
MaxIncrements == 3     \* Increment... calls begun in one behaviour

\* user.Stats.GroupsJoined++ (or GroupsCreated, GroupsCompleted) on the copy
\* the caller holds
Increment(st, c) == [st EXCEPT ![c] = @ + 1]

\* a request starts the Increment... call of counter c
IncrementCall(p, c) ==
    /\ inc[p].pc = "idle"
    /\ tally.begun < MaxIncrements
    /\ inc' = [inc EXCEPT ![p] = [NoInc EXCEPT !.pc = "read", !.counter = c]]
    /\ tally' = [tally EXCEPT !.begun = @ + 1]
    /\ UNCHANGED <<stats, evars, mvars>>

\* GetUserByID: SELECT ... FROM users WHERE id; on an error the call returns
\* it, otherwise the caller holds a copy of the stats it read
GetUserByID(p) ==
    /\ inc[p].pc = "read"
    /\ \E fault \in BOOLEAN :
          inc' = [inc EXCEPT ![p] =
                     IF fault THEN NoInc
                     ELSE [@ EXCEPT !.pc = "write", !.stats = stats]]
    /\ UNCHANGED <<stats, tally, evars, mvars>>

\* the increment of the copy and UpdateUserStats: UPDATE users SET stats = $2
\* WHERE id; the call returns nil when the row was written
UpdateUserStats(p) ==
    /\ inc[p].pc = "write"
    /\ \E fault \in BOOLEAN :
          IF fault
          THEN UNCHANGED <<stats, tally>>
          ELSE /\ stats' = Increment(inc[p].stats, inc[p].counter)
               /\ tally' = [tally EXCEPT !.done[inc[p].counter] = @ + 1]
    /\ inc' = [inc EXCEPT ![p] = NoInc]
    /\ UNCHANGED <<evars, mvars>>

StatsNext ==
    \/ \E p \in Procs, c \in Counters : IncrementCall(p, c)
    \/ \E p \in Procs : GetUserByID(p)
    \/ \E p \in Procs : UpdateUserStats(p)

StatsSpec == Init /\ [][StatsNext]_vars

\* ------------------------------------------------------------- discovery
\* DiscoverGroups is read-only: one candidate query on the groups table, a
\* similarity score per candidate, a sort.  It is checked on tables and
\* requests drawn from the sets below.
MaxTags == 3           \* length of the tag lists scored directly
MaxRows == 3           \* rows of the enumerated tables
BigTable == 101        \* rows of the largest table
DefaultLimit == 50
MaxLimit == 100        \* binding max=100 of DiscoverGroupsRequest.Limit

Tags == {"go", "rust", "ml"}
TagLists == UNION {[1..n -> Tags] : n \in 0..MaxTags}

\* a similarity score is the float64 quotient of two small integers; it is
\* kept as the pair, and two scores compare as their quotients do
ScoreLessOrEqual(x, y) == x.num * y.den <= y.num * x.den
ScoreLess(x, y) == x.num * y.den < y.num * x.den
Zero == [num |-> 0, den |-> 1]

Contains(s, x) == \E i \in 1..Len(s) : s[i] = x

\* intersect keeping every item of b found in a (no delete from the set)
intersectNoDelete(a, b) ==
    LET InA(x) == Contains(a, x) IN SelectSeq(b, InA)

\* the second loop of intersect, over b from position i; set holds the items
\* of a that were not yet appended
RECURSIVE IntersectFrom(_, _, _)
IntersectFrom(set, b, i) ==
    IF i > Len(b) THEN <<>>
    ELSE IF b[i] \in set
         THEN <<b[i]>> \o IntersectFrom(set \ {b[i]}, b, i + 1)
         ELSE IntersectFrom(set, b, i + 1)

intersect(a, b) == IntersectFrom({a[i] : i \in 1..Len(a)}, b, 1)

\* one loop of union, over s from position i
RECURSIVE UnionFrom(_, _, _, _)
UnionFrom(set, res, s, i) ==
    IF i > Len(s) THEN [set |-> set, res |-> res]
    ELSE IF s[i] \notin set
         THEN UnionFrom(set \cup {s[i]}, Append(res, s[i]), s, i + 1)
         ELSE UnionFrom(set, res, s, i + 1)

union(a, b) ==
    LET u == UnionFrom({}, <<>>, a, 1) IN UnionFrom(u.set, u.res, b, 1).res

CalculateJaccardScore(userTags, groupTags) ==
    IF Len(userTags) = 0 /\ Len(groupTags) = 0 THEN Zero
    ELSE LET i == intersect(userTags, groupTags)
             u == union(userTags, groupTags)
         IN  IF Len(u) = 0 THEN Zero
             ELSE [num |-> Len(i), den |-> Len(u)]

\* the inner loop of sortByScore from j, in pass i (both counted from 0)
RECURSIVE BubbleInner(_, _, _)
BubbleInner(m, i, j) ==
    IF j >= Len(m) - i - 1 THEN m
    ELSE IF ScoreLess(m[j + 1].score, m[j + 2].score)
         THEN BubbleInner([m EXCEPT ![j + 1] = m[j + 2], ![j + 2] = m[j + 1]], i, j + 1)
         ELSE BubbleInner(m, i, j + 1)

RECURSIVE BubbleOuter(_, _)
BubbleOuter(m, i) ==
    IF i >= Len(m) - 1 THEN m
    ELSE BubbleOuter(BubbleInner(m, i, 0), i + 1)

\* sortByScore stopping after its first pass
sortByScoreOnePass(m) == BubbleInner(m, 0, 0)
sortByScore(m) == BubbleOuter(m, 0)

\* tags ?| $1 : some string of the array is an element of the stored list
AnyTag(groupTags, tags) == \E i \in 1..Len(tags) : Contains(groupTags, tags[i])

\* the WHERE clause without status = 'OPEN' AND current_count < capacity
CandidateAnyState(g, tags, filters) ==
    /\ Len(tags) > 0 => AnyTag(g.tags, tags)
    /\ filters.join_type # "" => g.join_type = filters.join_type

\* the WHERE clause of FindGroupsByTags
Candidate(g, tags, filters) ==
    /\ g.status = StatusOpen
    /\ g.current_count < g.capacity
    /\ Len(tags) > 0 => AnyTag(g.tags, tags)
    /\ filters.join_type # "" => g.join_type = filters.join_type

\* ORDER BY created_at DESC on rows kept in the order of their creation
Reverse(s) == [i \in 1..Len(s) |-> s[Len(s) + 1 - i]]

Limit(filters) == IF filters.limit = 0 THEN DefaultLimit ELSE filters.limit

FindGroupsByTags(tbl, tags, filters) ==
    LET Sel(g) == Candidate(g, tags, filters)
        ordered == Reverse(SelectSeq(tbl, Sel))
        n == IF Len(ordered) < Limit(filters) THEN Len(ordered) ELSE Limit(filters)
    IN  SubSeq(ordered, 1, n)

FindMatches(tbl, userTags, filters) ==
    LET found == FindGroupsByTags(tbl, userTags, filters)
        scored == [i \in 1..Len(found) |->
                      [group |-> found[i],
                       score |-> CalculateJaccardScore(userTags, found[i].tags)]]
    IN  sortByScore(scored)

\* the rows of the tables: every mix of tags, join type, status and fill
GroupTagLists == {<<>>, <<"go">>, <<"rust">>, <<"go", "rust">>, <<"go", "ml", "ml">>}
RowKinds == [tags : GroupTagLists, join_type : {JoinTypeOpen, JoinTypeApplication},
             status : {StatusOpen, StatusClosed}, full : BOOLEAN]
OpenKinds == {k \in RowKinds : k.status = StatusOpen /\ ~k.full}

\* the table whose i-th created row is of kind ks[i]
MakeTable(ks) ==
    [i \in 1..Len(ks) |->
        [id |-> i, created_at |-> i, tags |-> ks[i].tags, capacity |-> 2,
         current_count |-> IF ks[i].full THEN 2 ELSE 1,
         join_type |-> ks[i].join_type, status |-> ks[i].status]]

\* n open groups with room, tagged in turn "go" and "go", "rust"
ManyOpen(n) ==
    MakeTable([i \in 1..n |->
                  [tags |-> IF i % 2 = 1 THEN <<"go">> ELSE <<"go", "rust">>,
                   join_type |-> JoinTypeOpen, status |-> StatusOpen, full |-> FALSE]])

\* short tables of any rows, tables of MaxRows rows that are all open with
\* room, and two tables larger than the default limit
Tables ==
    {MakeTable(ks) : ks \in UNION {[1..n -> RowKinds] : n \in 0..(MaxRows - 1)}}
        \cup {MakeTable(ks) : ks \in [1..MaxRows -> OpenKinds]}
        \cup {ManyOpen(DefaultLimit + 1), ManyOpen(BigTable)}

ReqTagLists == {t \in TagLists : Len(t) <= 2 /\ ~Contains(t, "ml")}
ReqLimits == {0, 1, 2, BigTable}
Requests == [tags : ReqTagLists, join_type : {"", JoinTypeOpen, JoinTypeApplication},
             limit : ReqLimits]

\* Service.DiscoverGroups: the request is answered by FindMatches
DiscoverGroups ==
    /\ ~matches.done
    /\ matches' = [done |-> TRUE, list |-> FindMatches(table, req.tags, req)]
    /\ UNCHANGED <<evars, table, req, jaccard, svars>>

MatchInit ==
    /\ EngineIdle
    /\ table \in Tables
    /\ req \in Requests
    /\ matches = NoMatches
    /\ jaccard = NoScore
    /\ StatsIdle

MatchNext == DiscoverGroups

MatchSpec == MatchInit /\ [][MatchNext]_vars

\* a call of CalculateJaccardScore(a, b)
Score ==
    /\ ~jaccard.done
    /\ LET sc == CalculateJaccardScore(jaccard.a, jaccard.b) IN
       jaccard' = [jaccard EXCEPT !.done = TRUE, !.num = sc.num, !.den = sc.den]
    /\ UNCHANGED <<evars, table, req, matches, svars>>

ScoreInit ==
    /\ EngineIdle
    /\ table = <<>>
    /\ req = NoReq
    /\ matches = NoMatches
    /\ jaccard \in {[NoScore EXCEPT !.a = a, !.b = b] : a \in TagLists, b \in TagLists}
    /\ StatsIdle

ScoreNext == Score

ScoreSpec == ScoreInit /\ [][ScoreNext]_vars

\* ------------------------------------------------------------ properties
Exists(g) == groups[g] # NoGroup
MemberIDs(g) == {members[g][i].user_id : i \in 1..Len(members[g])}
Done(p, op) == pc[p] = "done" /\ call[p].op = op

\* the step in which the transaction of p, begun under the lock, ends
Ends(p, op) == pc[p] = "locked" /\ call[p].op = op /\ pc'[p] # "locked"
Untouched == groups' = groups /\ members' = members /\ cacheDels' = cacheDels

\* C1: the committed current_count of a group is never below 0 nor above
\* its capacity, and the group never has more membership rows than its
\* capacity: concurrent callers are never both admitted past capacity.
C1_CapacityNeverExceeded ==
    \A g \in GroupIDs :
        Exists(g) =>
            /\ groups[g].current_count >= 0
            /\ groups[g].current_count <= groups[g].capacity
            /\ Len(members[g]) <= groups[g].capacity

\* two JoinGroup calls that both saw room when they were made have both
\* returned: one was admitted and filled the group, the other was refused
C1_Witness ==
    \E p, q \in Procs :
        /\ p # q /\ Done(p, "JoinGroup") /\ Done(q, "JoinGroup")
        /\ call[p].gid = call[q].gid
        /\ Exists(call[p].gid)
        /\ pre[p].count < groups[call[p].gid].capacity /\ pre[p].count > 0
        /\ pre[q].count < groups[call[p].gid].capacity /\ pre[q].count > 0
        /\ result[p] = OK /\ result[q] # OK
        /\ groups[call[p].gid].current_count = groups[call[p].gid].capacity

\* C2: a committed group is CLOSED if and only if current_count equals
\* capacity, for every capacity the engine and the storage accept.
C2_ClosedIffFull ==
    \A g \in GroupIDs :
        Exists(g) =>
            (groups[g].status = StatusClosed
                <=> groups[g].current_count = groups[g].capacity)

\* the scenario of C3 and C4: two callers have returned from JoinGroup for
\* two different users on the same OPEN-type group of capacity 2; both
\* calls were made while the group had its owner as only member, no other
\* call admitted anybody, and neither call was hit by a connection error.
TwoJoiners(p, q) ==
    /\ p # q /\ Done(p, "JoinGroup") /\ Done(q, "JoinGroup")
    /\ call[p].gid = call[q].gid
    /\ call[p].uid # call[q].uid
    /\ groups[call[p].gid].capacity = 2
    /\ groups[call[p].gid].join_type = JoinTypeOpen
    /\ pre[p] = [member |-> FALSE, count |-> 1]
    /\ pre[q] = [member |-> FALSE, count |-> 1]
    /\ result[p] # ErrStorage /\ result[q] # ErrStorage
    /\ MemberIDs(call[p].gid) \subseteq
          {groups[call[p].gid].owner_id, call[p].uid, call[q].uid}
    /\ call[p].uid \in MemberIDs(call[p].gid) => result[p] = OK
    /\ call[q].uid \in MemberIDs(call[p].gid) => result[q] = OK

\* C3: in the capacity-2 scenario exactly one of the two concurrent
\* JoinGroup calls succeeds, and the committed group ends with
\* current_count 2, status CLOSED and exactly two membership rows.
C3_ExactlyOneJoins ==
    \A p, q \in Procs :
        TwoJoiners(p, q) =>
            /\ (result[p] = OK) # (result[q] = OK)
            /\ groups[call[p].gid].current_count = 2
            /\ groups[call[p].gid].status = StatusClosed
            /\ Len(members[call[p].gid]) = 2

C3_Witness ==
    \E p, q \in Procs :
        /\ TwoJoiners(p, q)
        /\ result[p] = OK
        /\ result[q] = ErrSerialization

\* C4 as claimed: in the capacity-2 scenario the JoinGroup call that does
\* not succeed fails with GroupFull.
C4_LoserGroupFull ==
    \A p, q \in Procs :
        (TwoJoiners(p, q) /\ result[p] = OK) => result[q] = ErrGroupFull

\* C4 amended: in the capacity-2 scenario the JoinGroup call that does not
\* succeed fails with GroupNotOpen, or with the serialization failure of
\* the database when its locking read waited for the winner's commit.
C4_LoserGroupNotOpen ==
    \A p, q \in Procs :
        (TwoJoiners(p, q) /\ result[p] = OK) =>
            result[q] \in {ErrGroupNotOpen, ErrSerialization}

C4_Witness ==
    \E p, q \in Procs :
        /\ TwoJoiners(p, q)
        /\ result[p] = OK
        /\ result[q] = ErrGroupNotOpen

\* a JoinGroup call for a user who had already joined the OPEN-type group
\* when the call was made, answered by the engine (not by a database error)
LaterJoin(p) ==
    /\ Done(p, "JoinGroup")
    /\ Exists(call[p].gid)
    /\ groups[call[p].gid].join_type = JoinTypeOpen
    /\ call[p].uid # groups[call[p].gid].owner_id
    /\ pre[p].member
    /\ result[p] \notin InfraErrors

UniqueMembership ==
    \A g \in GroupIDs : \A i, j \in 1..Len(members[g]) :
        members[g][i].user_id = members[g][j].user_id => i = j

\* C5 as claimed: every JoinGroup after the successful one of the same
\* (group, user) fails AlreadyMember, and the user has one membership row.
C5_LaterJoinAlreadyMember ==
    /\ \A p \in Procs : LaterJoin(p) => result[p] = ErrAlreadyMember
    /\ UniqueMembership

\* C5 amended: every JoinGroup after the successful one of the same
\* (group, user) fails: AlreadyMember while the group is OPEN, GroupNotOpen
\* once the group is CLOSED; the user never has two membership rows.
C5_LaterJoinFails ==
    /\ \A p \in Procs :
          LaterJoin(p) =>
              result[p] = IF local[p].status = StatusOpen
                          THEN ErrAlreadyMember ELSE ErrGroupNotOpen
    /\ UniqueMembership

C5_Witness ==
    \E p \in Procs : LaterJoin(p) /\ result[p] = ErrAlreadyMember

\* C6 as claimed: JoinGroup on an APPLICATION group fails
\* CannotJoinApplicationGroup whatever the status, and changes nothing.
C6_JoinApplicationGroup ==
    [][\A p \in Procs :
          (Ends(p, "JoinGroup") /\ local[p].join_type = JoinTypeApplication) =>
              /\ result'[p] = ErrCannotJoinApplicationGroup
              /\ Untouched]_vars

\* C6 amended: JoinGroup on an APPLICATION group changes nothing and fails
\* CannotJoinApplicationGroup while the group is OPEN, GroupNotOpen once it
\* is CLOSED.
C6_JoinApplicationGroupFails ==
    [][\A p \in Procs :
          (Ends(p, "JoinGroup") /\ local[p].join_type = JoinTypeApplication) =>
              /\ result'[p] = IF local[p].status = StatusOpen
                              THEN ErrCannotJoinApplicationGroup
                              ELSE ErrGroupNotOpen
              /\ Untouched]_vars

C6_Witness ==
    \E p \in Procs :
        /\ Done(p, "JoinGroup")
        /\ local[p].join_type = JoinTypeApplication
        /\ result[p] = ErrCannotJoinApplicationGroup

\* C7 as claimed: ApplyToGroup on an OPEN-type group fails
\* CannotApplyToOpenGroup whatever the status, and changes nothing.
C7_ApplyOpenGroup ==
    [][\A p \in Procs :
          (Ends(p, "ApplyToGroup") /\ local[p].join_type = JoinTypeOpen) =>
              /\ result'[p] = ErrCannotApplyToOpenGroup
              /\ Untouched]_vars

\* C7 amended: ApplyToGroup on an OPEN-type group changes nothing and fails
\* CannotApplyToOpenGroup while the group is OPEN, GroupNotOpen once it is
\* CLOSED.
C7_ApplyOpenGroupFails ==
    [][\A p \in Procs :
          (Ends(p, "ApplyToGroup") /\ local[p].join_type = JoinTypeOpen) =>
              /\ result'[p] = IF local[p].status = StatusOpen
                              THEN ErrCannotApplyToOpenGroup
                              ELSE ErrGroupNotOpen
              /\ Untouched]_vars

C7_Witness ==
    \E p \in Procs :
        /\ Done(p, "ApplyToGroup")
        /\ local[p].join_type = JoinTypeOpen
        /\ result[p] = ErrCannotApplyToOpenGroup

\* C8: ApproveApplication by the owner with approve=true, for a PENDING
\* application of a group whose current_count has reached capacity, fails
\* GroupFull; no row is added, current_count is unchanged and the
\* application is still PENDING in the committed group.
C8_ApproveFullGroup ==
    [][\A p \in Procs :
          (/\ Ends(p, "ApproveApplication")
           /\ call[p].approve
           /\ call[p].by = local[p].owner_id
           /\ HasPending(local[p], call[p].uid)
           /\ local[p].current_count >= local[p].capacity) =>
              /\ result'[p] = ErrGroupFull
              /\ Untouched
              /\ HasPending(groups'[call[p].gid], call[p].uid)]_vars

C8_Witness ==
    \E p \in Procs :
        /\ Done(p, "ApproveApplication")
        /\ call[p].approve
        /\ result[p] = ErrGroupFull
        /\ HasPending(groups[call[p].gid], call[p].uid)
        /\ groups[call[p].gid].current_count = groups[call[p].gid].capacity
        /\ Len(members[call[p].gid]) > 1

\* C9: JoinGroup by a further user on a group that has been filled and
\* CLOSED fails GroupNotOpen and leaves count, status and rows unchanged.
C9_JoinClosedGroup ==
    [][\A p \in Procs :
          (/\ Ends(p, "JoinGroup")
           /\ local[p].status = StatusClosed
           /\ local[p].current_count = local[p].capacity
           /\ ~IsMember(call[p].gid, call[p].uid)) =>
              /\ result'[p] = ErrGroupNotOpen
              /\ Untouched]_vars

C9_Witness ==
    \E p \in Procs :
        /\ Done(p, "JoinGroup")
        /\ result[p] = ErrGroupNotOpen
        /\ local[p].join_type = JoinTypeOpen
        /\ local[p].status = StatusClosed
        /\ local[p].current_count = local[p].capacity
        /\ ~IsMember(call[p].gid, call[p].uid)

\* C10: a group never holds two PENDING applications of the same user.
C10_OnePendingPerUser ==
    \A g \in GroupIDs : \A i, j \in 1..Len(groups[g].applications) :
        (/\ groups[g].applications[i].user_id = groups[g].applications[j].user_id
         /\ groups[g].applications[i].status = ApplicationStatusPending
         /\ groups[g].applications[j].status = ApplicationStatusPending) => i = j

\* two concurrent ApplyToGroup calls of one user: one filed, one refused
C10_Witness ==
    \E p, q \in Procs :
        /\ p # q /\ Done(p, "ApplyToGroup") /\ Done(q, "ApplyToGroup")
        /\ call[p].gid = call[q].gid /\ call[p].uid = call[q].uid
        /\ result[p] = OK
        /\ result[q] = ErrApplicationExists
        /\ HasPending(groups[call[p].gid], call[p].uid)


\* user uid has an APPROVED application on the list of group g
HasApproved(g, uid) ==
    \E i \in 1..Len(groups[g].applications) :
        /\ groups[g].applications[i].user_id = uid
        /\ groups[g].applications[i].status = ApplicationStatusApproved

\* C11: a group of join type APPLICATION gains no member through JoinGroup:
\* in every reachable state each of its members other than the owner has an
\* APPROVED application on the group's application list.
C11_MembersWereApproved ==
    \A g \in GroupIDs :
        Exists(g) /\ groups[g].join_type = JoinTypeApplication =>
            \A u \in MemberIDs(g) \ {groups[g].owner_id} : HasApproved(g, u)

\* an APPLICATION group that has an approved member and has just turned a
\* JoinGroup call away
C11_Witness ==
    \E g \in GroupIDs, p \in Procs :
        /\ Exists(g) /\ groups[g].join_type = JoinTypeApplication
        /\ MemberIDs(g) \ {groups[g].owner_id} # {}
        /\ Done(p, "JoinGroup") /\ call[p].gid = g
        /\ call[p].uid \notin MemberIDs(g)
        /\ result[p] = ErrCannotJoinApplicationGroup

\* C12: in every reachable state the application list of a group of join
\* type OPEN is empty.
C12_OpenGroupNoApplications ==
    \A g \in GroupIDs :
        Exists(g) /\ groups[g].join_type = JoinTypeOpen =>
            groups[g].applications = <<>>

\* an OPEN-type group, open and with room, that ApplyToGroup was called on
C12_Witness ==
    \E g \in GroupIDs, p \in Procs :
        /\ Exists(g) /\ groups[g].join_type = JoinTypeOpen
        /\ groups[g].status = StatusOpen /\ ~AtCapacity(groups[g])
        /\ Done(p, "ApplyToGroup") /\ call[p].gid = g
        /\ call[p].uid \notin MemberIDs(g)
        /\ result[p] = ErrCannotApplyToOpenGroup

\* C13: an application record, once appended, is never removed from the list
\* of its group and keeps its user; its status changes only from PENDING to
\* APPROVED or REJECTED, so a decided record is never changed again.
C13_ApplicationsAppendOnly ==
    [][\A g \in GroupIDs :
          LET a == groups[g].applications
              b == groups'[g].applications
          IN  /\ Len(b) >= Len(a)
              /\ \A i \in 1..Len(a) :
                    /\ b[i].user_id = a[i].user_id
                    /\ \/ b[i].status = a[i].status
                       \/ /\ a[i].status = ApplicationStatusPending
                          /\ b[i].status \in {ApplicationStatusApproved,
                                               ApplicationStatusRejected}]_vars

\* a rejected record followed by a later record of the same user that was
\* decided in turn: operations ran on a list holding a decided record
C13_Witness ==
    \E g \in GroupIDs, p \in Procs :
        /\ Len(groups[g].applications) = 2
        /\ groups[g].applications[1].status = ApplicationStatusRejected
        /\ groups[g].applications[2].user_id = groups[g].applications[1].user_id
        /\ groups[g].applications[2].status = ApplicationStatusApproved
        /\ Done(p, "ApproveApplication") /\ call[p].gid = g /\ result[p] = OK

\* the membership rows of g: one LEADER row, the owner's, the rest MEMBER
OneLeader(g) ==
    LET rows == members[g] IN
    /\ Cardinality({i \in 1..Len(rows) : rows[i].role = RoleLeader}) = 1
    /\ \A i \in 1..Len(rows) :
          IF rows[i].user_id = groups[g].owner_id
          THEN rows[i].role = RoleLeader
          ELSE rows[i].role = RoleMember

\* C14: each group has exactly one membership row with role LEADER, it is the
\* owner's, every other row has role MEMBER; and no step changes or removes
\* an existing membership row, so no member's role ever changes.
C14_OneLeaderRolesKept ==
    [][\A g \in GroupIDs :
          /\ (Exists(g) => OneLeader(g))'
          /\ Len(members'[g]) >= Len(members[g])
          /\ \A i \in 1..Len(members[g]) : members'[g][i] = members[g][i]]_vars

\* a group whose owner has been joined by another member
C14_Witness ==
    \E g \in GroupIDs, p \in Procs :
        /\ Exists(g) /\ Len(members[g]) >= 2
        /\ members[g][1] = [user_id |-> groups[g].owner_id, role |-> RoleLeader]
        /\ members[g][2].role = RoleMember
        /\ pc[p] = "done" /\ call[p].op \in {"JoinGroup", "ApproveApplication"}
        /\ call[p].gid = g /\ result[p] = OK

\* the group row g and its owner's LEADER row are both stored, or neither
BothOrNeither(g, ownerID) ==
    \/ /\ Exists(g) /\ groups[g].owner_id = ownerID
       /\ \E i \in 1..Len(members[g]) :
             members[g][i] = [user_id |-> ownerID, role |-> RoleLeader]
    \/ ~Exists(g) /\ members[g] = <<>>

\* C15: CreateGroup is atomic: once its transaction has ended, the group row
\* and the owner's LEADER row are both committed when it succeeded and
\* neither is when it failed, whichever of the two inserts failed; no group
\* row is ever stored without its owner's row or the reverse.
C15_CreateGroupAtomic ==
    /\ \A g \in GroupIDs : Exists(g) <=> members[g] # <<>>
    /\ \A p \in Procs :
          /\ pc[p] \in {"committed", "done"}
          /\ call[p].op = "CreateGroup" /\ call[p].gid # 0
          => /\ BothOrNeither(call[p].gid, call[p].uid)
             /\ Exists(call[p].gid) <=> result[p] = OK

\* CreateGroup whose group insert went through and whose AddMember failed
C15_Witness ==
    \E p \in Procs :
        /\ Done(p, "CreateGroup") /\ failedAt[p] = "AddMember"
        /\ result[p] # OK
        /\ ~Exists(call[p].gid) /\ members[call[p].gid] = <<>>

\* the step in which the call of p fails: an error is returned, or a database
\* call of its transaction failed
FailsNow(p) ==
    /\ pc[p] \in {"begin", "wait", "locked"}
    /\ \/ result'[p] \notin {"", OK}
       \/ failedAt'[p] # ""

\* C16: when a step of a mutating operation fails, also after earlier writes
\* of the same operation went through or the context was cancelled in the
\* middle, the operation returns an error and none of its writes is
\* committed: groups, their applications and the membership rows stay as
\* they were.
C16_FailureCommitsNothing ==
    [][\A p \in Procs :
          FailsNow(p) => /\ groups' = groups
                         /\ members' = members
                         /\ result'[p] \notin {"", OK}]_vars

\* JoinGroup whose membership insert went through and whose group update
\* failed: the user is no member
C16_Witness ==
    \E p \in Procs :
        /\ Done(p, "JoinGroup") /\ failedAt[p] = "UpdateGroup"
        /\ result[p] = ErrStorage
        /\ ~IsMember(call[p].gid, call[p].uid)
        /\ groups[call[p].gid].current_count = Len(members[call[p].gid])

MutatingOps == {"JoinGroup", "ApplyToGroup", "ApproveApplication"}

\* C17: no two mutating operations on the same group are between taking the
\* row lock and commit/rollback at the same time; the lock is the first
\* thing a transaction gets, before it has read the group or answered, and a
\* second operation on the group waits without the lock.
C17_OneUnderLock ==
    \A p \in Procs :
        call[p].op \in MutatingOps =>
            /\ pc[p] = "locked" =>
                  /\ lock[call[p].gid] = p
                  /\ \A q \in Procs \ {p} :
                        ~(pc[q] = "locked" /\ call[q].gid = call[p].gid)
            /\ pc[p] \in {"begin", "wait"} =>
                  /\ local[p] = NoGroup /\ result[p] = ""
                  /\ \A g \in GroupIDs : lock[g] # p

\* one operation under the lock of a group and a second one waiting for it
C17_Witness ==
    \E p \in Procs, q \in Procs :
        /\ p # q /\ call[p].gid = call[q].gid
        /\ call[p].op \in MutatingOps /\ call[q].op \in MutatingOps
        /\ pc[p] = "locked" /\ pc[q] = "wait"
        /\ lock[call[p].gid] = p

\* C18: the cache entry of a group is deleted only after the transaction of
\* the mutation has committed: the deleting step is taken by a caller whose
\* transaction returned without error, after the step that committed it and
\* released the lock, and a call that failed never has a deletion.
C18_DeleteOnlyAfterCommit ==
    [][\A p \in Procs :
          /\ cacheDels'[p] > cacheDels[p] =>
                /\ pc[p] = "committed" /\ result[p] = OK
                /\ \A g \in GroupIDs : lock[g] # p
                /\ groups' = groups /\ members' = members
          /\ (cacheDels[p] > 0 => result[p] = OK)']_vars

\* a JoinGroup that committed and deleted the entry, next to a call whose
\* transaction failed at a database call and deleted nothing
C18_Witness ==
    \E p \in Procs, q \in Procs :
        /\ Done(p, "JoinGroup") /\ result[p] = OK /\ cacheDels[p] = 1
        /\ IsMember(call[p].gid, call[p].uid)
        /\ pc[q] = "done" /\ call[q].op \in MutatingOps
        /\ failedAt[q] # "" /\ result[q] # OK /\ cacheDels[q] = 0

\* C19: every successful mutating operation on an existing group (JoinGroup,
\* ApplyToGroup, ApproveApplication approving or rejecting) has deleted the
\* cache entry of the group exactly once when it returns.
C19_SuccessDeletesOnce ==
    \A p \in Procs :
        pc[p] = "done" /\ call[p].op \in MutatingOps /\ result[p] = OK
            => cacheDels[p] = 1

\* C20: a mutating operation attempts its transaction at most once: a
\* transaction is begun only by a new call; the step in which the database
\* reports a serialization failure or a storage error ends the call with that
\* error, commits nothing and deletes no cache entry, and nothing but the
\* return to the caller follows it.
C20_NoRetry ==
    [][\A p \in Procs :
          /\ pc'[p] = "begin" => pc[p] \in {"idle", "begin"}
          /\ pc[p] \in {"begin", "wait", "locked"} /\ result'[p] \in InfraErrors
                => /\ pc'[p] = "done"
                   /\ groups' = groups /\ members' = members
                   /\ cacheDels'[p] = 0
          /\ pc[p] = "done" /\ result[p] \in InfraErrors
                => /\ pc'[p] \in {"done", "idle"}
                   /\ cacheDels'[p] = 0]_vars

\* a mutating call that was answered with the serialization failure
C20_Witness ==
    \E p \in Procs :
        /\ pc[p] = "done" /\ call[p].op \in MutatingOps
        /\ result[p] = ErrSerialization
        /\ cacheDels[p] = 0

\* C21: CreateGroup with a join type other than OPEN or APPLICATION fails
\* InvalidJoinType without opening a transaction: the call goes from the
\* request straight to its answer, hands out no id, and its step creates no
\* group row and no membership row.
C21_InvalidJoinTypeNoTx ==
    [][\A p \in Procs :
          call'[p].op = "CreateGroup" /\ ~(call'[p].jt \in {JoinTypeOpen, JoinTypeApplication})
              => /\ pc'[p] = "done"
                 /\ result'[p] = ErrInvalidJoinType
                 /\ call'[p].gid = 0 /\ failedAt'[p] = ""
                 /\ pc[p] = "idle" =>
                       groups' = groups /\ members' = members /\ nextID' = nextID]_vars

\* a CreateGroup call with join type INVITE that has been answered
C21_Witness ==
    \E p \in Procs :
        /\ Done(p, "CreateGroup") /\ call[p].jt = "INVITE"
        /\ result[p] = ErrInvalidJoinType
        /\ \A g \in GroupIDs : ~Exists(g) /\ members[g] = <<>>

\* C22: every group created by CreateGroup has a capacity within [2,10]: 5
\* when the request left it zero, the requested value otherwise; a request
\* with a capacity outside [2,10] never yields a stored group.
C22_CapacityInRange ==
    /\ \A g \in GroupIDs :
          Exists(g) => groups[g].capacity >= 2 /\ groups[g].capacity <= 10
    /\ \A p \in Procs :
          Done(p, "CreateGroup") /\ result[p] = OK =>
              /\ call[p].cap = 0 \/ (call[p].cap >= 2 /\ call[p].cap <= 10)
              /\ groups[call[p].gid].capacity =
                     IF call[p].cap = 0 THEN DefaultCapacity ELSE call[p].cap

\* the step in which ApproveApplication of p, with the given flag, succeeds
Approves(p, approve) ==
    /\ Ends(p, "ApproveApplication") /\ call[p].approve = approve
    /\ result'[p] = OK

\* list b is list a with its record i, PENDING and of user uid, set to status
\* st and every other record as it was
Decided(a, b, i, uid, st) ==
    /\ i \in 1..Len(a)
    /\ a[i] = [user_id |-> uid, status |-> ApplicationStatusPending]
    /\ b = [a EXCEPT ![i].status = st]

NumApproved(g) ==
    Cardinality({i \in 1..Len(g.applications) :
                    g.applications[i].status = ApplicationStatusApproved})

\* C28: a successful ApproveApplication with approve=true sets the PENDING
\* application of the applicant to APPROVED, adds exactly one MEMBER row for
\* the applicant, increases current_count by exactly one and sets status
\* CLOSED exactly when the new count equals capacity, all in one step; and in
\* no step does a group of join type APPLICATION gain a row, a count or an
\* approval without the other two.
C28_ApproveEffectsTogether ==
    [][/\ \A p \in Procs :
            Approves(p, TRUE) =>
                LET g == call[p].gid
                    old == groups[g]
                    new == groups'[g]
                IN  /\ \E i \in 1..Len(old.applications) :
                          Decided(old.applications, new.applications, i,
                                  call[p].uid, ApplicationStatusApproved)
                    /\ members'[g] = Append(members[g], [user_id |-> call[p].uid,
                                                         role |-> RoleMember])
                    /\ new.current_count = old.current_count + 1
                    /\ new.status = IF new.current_count = new.capacity
                                    THEN StatusClosed ELSE old.status
                    /\ new.status = StatusClosed <=> new.current_count = new.capacity
                    /\ new = [old EXCEPT !.applications = new.applications,
                                         !.current_count = new.current_count,
                                         !.status = new.status]
       /\ \A g \in GroupIDs :
            Exists(g) /\ groups[g].join_type = JoinTypeApplication =>
                LET row == Len(members'[g]) = Len(members[g]) + 1
                    cnt == groups'[g].current_count = groups[g].current_count + 1
                    app == NumApproved(groups'[g]) = NumApproved(groups[g]) + 1
                IN  (row <=> cnt) /\ (cnt <=> app)]_vars

\* an approval that has filled and closed its group
C28_Witness ==
    \E p \in Procs :
        /\ Done(p, "ApproveApplication") /\ call[p].approve /\ result[p] = OK
        /\ LET g == groups[call[p].gid] IN
           /\ g.status = StatusClosed /\ g.current_count = g.capacity
           /\ g.capacity >= 2
           /\ IsMember(g.id, call[p].uid) /\ HasApproved(g.id, call[p].uid)

\* C29: a successful ApproveApplication with approve=false sets exactly the
\* PENDING application of the applicant to REJECTED and leaves current_count,
\* the membership rows, the group status and every other application as
\* they were.
C29_RejectFrame ==
    [][\A p \in Procs :
          Approves(p, FALSE) =>
              LET g == call[p].gid
                  old == groups[g]
                  new == groups'[g]
              IN  /\ \E i \in 1..Len(old.applications) :
                        Decided(old.applications, new.applications, i,
                                call[p].uid, ApplicationStatusRejected)
                  /\ new = [old EXCEPT !.applications = new.applications]
                  /\ members' = members]_vars

\* a rejection made while another user's application was PENDING, which
\* still is
C29_Witness ==
    \E p \in Procs :
        /\ Done(p, "ApproveApplication") /\ ~call[p].approve /\ result[p] = OK
        /\ LET a == groups[call[p].gid].applications IN
           /\ Len(a) = 2
           /\ \E i, j \in 1..2 :
                 /\ a[i] = [user_id |-> call[p].uid, status |-> ApplicationStatusRejected]
                 /\ a[j].user_id # call[p].uid
                 /\ a[j].status = ApplicationStatusPending

\* C30: ApproveApplication called with an ownerID that is not the owner of
\* the group fails NotGroupOwner, whatever the flag and whether or not the
\* applicant has a PENDING application; called by the owner for an applicant
\* without a PENDING application it fails ApplicationNotFound; both change
\* nothing.
C30_NotOwnerOrNotFound ==
    [][\A p \in Procs :
          Ends(p, "ApproveApplication") =>
              LET g == groups[call[p].gid] IN
              /\ call[p].by # g.owner_id =>
                    result'[p] = ErrNotGroupOwner /\ Untouched
              /\ call[p].by = g.owner_id /\ ~HasPending(g, call[p].uid) =>
                    result'[p] = ErrApplicationNotFound /\ Untouched]_vars

\* a stranger turned away although the applicant had a PENDING application,
\* and the owner turned away for an applicant whose only record is decided
C30_Witness ==
    \E p \in Procs, q \in Procs :
        /\ Done(p, "ApproveApplication") /\ result[p] = ErrNotGroupOwner
        /\ call[p].by # groups[call[p].gid].owner_id
        /\ HasPending(groups[call[p].gid], call[p].uid)
        /\ Done(q, "ApproveApplication") /\ result[q] = ErrApplicationNotFound
        /\ call[q].by = groups[call[q].gid].owner_id
        /\ \E i \in 1..Len(groups[call[q].gid].applications) :
              /\ groups[call[q].gid].applications[i].user_id = call[q].uid
              /\ groups[call[q].gid].applications[i].status = ApplicationStatusRejected

\* the record ApplyToGroup appends for user uid
Pending(uid) == [user_id |-> uid, status |-> ApplicationStatusPending]

\* C31: a successful ApplyToGroup appends exactly one PENDING application of
\* the caller at the end of the application list of the group and leaves
\* current_count, the membership rows, the group status and all earlier
\* applications as they were.
C31_ApplyAppendsOne ==
    [][\A p \in Procs :
          (Ends(p, "ApplyToGroup") /\ result'[p] = OK) =>
              LET g == call[p].gid IN
              /\ groups' = [groups EXCEPT ![g].applications =
                                             Append(@, Pending(call[p].uid))]
              /\ members' = members]_vars

\* an application accepted behind an earlier one of another user
C31_Witness ==
    \E p \in Procs :
        /\ Done(p, "ApplyToGroup") /\ result[p] = OK
        /\ LET a == groups[call[p].gid].applications IN
           /\ Len(a) = 2
           /\ a[1].user_id # call[p].uid
           /\ a[2] = Pending(call[p].uid)

\* ApplyToGroup of p ends on a group it read as an OPEN, non-full
\* APPLICATION group
AppliesToOpenGroup(p) ==
    /\ Ends(p, "ApplyToGroup")
    /\ local[p].status = StatusOpen
    /\ local[p].join_type = JoinTypeApplication
    /\ ~AtCapacity(local[p])

\* C32: on an OPEN, non-full APPLICATION group, ApplyToGroup by a user who
\* is a member (the owner included) fails AlreadyMember, and by a non-member
\* who has a PENDING application fails ApplicationExists; in both cases
\* nothing is written, the application list included.  (A failed membership
\* query is answered with the storage error.)
C32_MemberOrPendingRejected ==
    [][\A p \in Procs :
          LET g == call[p].gid
              uid == call[p].uid
          IN  /\ (AppliesToOpenGroup(p) /\ IsMember(g, uid)) =>
                    /\ result'[p] \in {ErrAlreadyMember, ErrStorage}
                    /\ result'[p] = ErrStorage => failedAt'[p] = "IsMember"
                    /\ Untouched
              /\ (AppliesToOpenGroup(p) /\ ~IsMember(g, uid)
                    /\ HasPending(local[p], uid)) =>
                    /\ result'[p] \in {ErrApplicationExists, ErrStorage}
                    /\ result'[p] = ErrStorage => failedAt'[p] = "IsMember"
                    /\ Untouched]_vars

\* the owner turned away as a member, and an applicant turned away for the
\* PENDING application they have
C32_Witness ==
    \E p \in Procs, q \in Procs :
        /\ Done(p, "ApplyToGroup") /\ result[p] = ErrAlreadyMember
        /\ call[p].uid = local[p].owner_id
        /\ local[p].status = StatusOpen /\ ~AtCapacity(local[p])
        /\ Done(q, "ApplyToGroup") /\ result[q] = ErrApplicationExists
        /\ ~IsMember(call[q].gid, call[q].uid)
        /\ HasPending(groups[call[q].gid], call[q].uid)
        /\ local[q].status = StatusOpen /\ ~AtCapacity(local[q])

\* ApplyToGroup of p, a non-member without PENDING application, ends on an
\* APPLICATION group it read with current_count at capacity, and is answered
\* by the engine
AppliesToFullGroup(p) ==
    /\ Ends(p, "ApplyToGroup")
    /\ local[p].join_type = JoinTypeApplication
    /\ local[p].current_count >= local[p].capacity
    /\ ~IsMember(call[p].gid, call[p].uid)
    /\ ~HasPending(local[p], call[p].uid)
    /\ result'[p] \notin InfraErrors

\* C33 as claimed: ApplyToGroup by a non-member with no PENDING application
\* on an APPLICATION group whose current_count has reached capacity fails
\* GroupFull and appends nothing.
C33_ApplyFullGroup ==
    [][\A p \in Procs :
          AppliesToFullGroup(p) => result'[p] = ErrGroupFull /\ Untouched]_vars

\* C33 amended: ApplyToGroup by a non-member with no PENDING application on
\* an APPLICATION group whose current_count has reached capacity fails and
\* appends nothing: with GroupNotOpen when the group is CLOSED, as every
\* group filled by an approval is, and with GroupFull only when the full
\* group is still OPEN.
C33_ApplyFullGroupFails ==
    [][\A p \in Procs :
          AppliesToFullGroup(p) =>
              /\ result'[p] = IF local[p].status = StatusOpen
                              THEN ErrGroupFull ELSE ErrGroupNotOpen
              /\ Untouched]_vars

\* an application turned away from a group that an approval had filled and
\* closed
C33_Witness ==
    \E p \in Procs :
        /\ Done(p, "ApplyToGroup") /\ result[p] = ErrGroupNotOpen
        /\ local[p].join_type = JoinTypeApplication
        /\ local[p].status = StatusClosed
        /\ local[p].current_count = local[p].capacity
        /\ local[p].capacity >= 2
        /\ ~IsMember(call[p].gid, call[p].uid)
        /\ ~HasPending(local[p], call[p].uid)

\* C34: in every committed state the current_count of a group equals the
\* number of its membership rows, after any sequence and interleaving of
\* CreateGroup, JoinGroup, ApplyToGroup and ApproveApplication calls, failed
\* ones included.
C34_CountIsMemberCount ==
    \A g \in GroupIDs : groups[g].current_count = GetMemberCount(g)

\* three rows counted after a join, while the caller of a JoinGroup that had
\* inserted its row and then failed to update the group still holds the error
C34_Witness ==
    \E g \in GroupIDs, p \in Procs :
        /\ groups[g].current_count = 3 /\ GetMemberCount(g) = 3
        /\ Done(p, "JoinGroup") /\ call[p].gid = g
        /\ failedAt[p] = "UpdateGroup" /\ result[p] = ErrStorage

\* s is the beginning of t
IsPrefix(s, t) == Len(s) <= Len(t) /\ \A i \in 1..Len(s) : t[i] = s[i]

\* C35: across any sequence of operations the current_count of a group never
\* decreases, none of its membership rows is ever removed or changed, and
\* its status never goes from CLOSED back to OPEN and never becomes
\* COMPLETED.
C35_Monotonic ==
    [][\A g \in GroupIDs :
          /\ groups'[g].current_count >= groups[g].current_count
          /\ IsPrefix(members[g], members'[g])
          /\ groups[g].status = StatusClosed => groups'[g].status = StatusClosed
          /\ groups'[g].status # StatusCompleted]_vars

\* a rejection written to a group that was full and CLOSED, which still is
C35_Witness ==
    \E p \in Procs :
        /\ Done(p, "ApproveApplication") /\ ~call[p].approve /\ result[p] = OK
        /\ local[p].status = StatusClosed
        /\ LET g == groups[call[p].gid] IN
           /\ g.status = StatusClosed
           /\ g.current_count = 2 /\ GetMemberCount(g.id) = 2

\* the call of p is in progress
InFlight(p) == pc[p] \in {"begin", "wait", "locked", "committed"}

\* the call of p has its answer and holds no row lock
Returned(p) ==
    /\ pc[p] = "done"
    /\ result[p] # ""
    /\ \A g \in DOMAIN lock : lock[g] # p

\* C36: under fair scheduling every JoinGroup, ApplyToGroup and
\* ApproveApplication call eventually returns, with success or an error, and
\* has released the row lock of its group: no set of concurrent calls on one
\* or several groups deadlocks or blocks another call for ever.
C36_EveryCallReturns ==
    \A p \in Procs : InFlight(p) ~> Returned(p)

\* a call that had to wait for the row lock has returned, as has the call
\* it waited for, and the lock is free
C36_Witness ==
    \E p \in Procs, q \in Procs :
        /\ p # q /\ call[p].gid = call[q].gid
        /\ pc[p] = "done" /\ result[p] = OK
        /\ pc[q] = "done" /\ result[q] = ErrSerialization
        /\ lock[call[p].gid] = 0

\* the list of g holds a REJECTED application of user uid
HasRejected(g, uid) ==
    \E i \in 1..Len(g.applications) :
        g.applications[i] = [user_id |-> uid, status |-> ApplicationStatusRejected]

\* C37: after an application of a user to a group was REJECTED, a new
\* ApplyToGroup of the same user on the same group, still OPEN and not full,
\* succeeds unless the database fails: a new PENDING record is appended and
\* the REJECTED record stays as it is; a later successful ApproveApplication
\* decides the PENDING record and leaves the REJECTED one as it is.
C37_ReapplyAfterRejection ==
    [][\A p \in Procs :
          LET g == call[p].gid
              uid == call[p].uid
              old == groups[g].applications
              new == groups'[g].applications
          IN  /\ (/\ AppliesToOpenGroup(p)
                  /\ ~IsMember(g, uid)
                  /\ HasRejected(local[p], uid) /\ ~HasPending(local[p], uid)
                  /\ result'[p] \notin InfraErrors) =>
                     /\ result'[p] = OK
                     /\ new = Append(old, Pending(uid))
              /\ (/\ Ends(p, "ApproveApplication") /\ result'[p] = OK
                  /\ HasRejected(groups[g], uid)) =>
                     /\ \E i \in 1..Len(old) :
                           Decided(old, new, i, uid,
                                   IF call[p].approve THEN ApplicationStatusApproved
                                   ELSE ApplicationStatusRejected)
                     /\ \A j \in 1..Len(old) :
                           old[j].status = ApplicationStatusRejected =>
                               new[j] = old[j]]_vars

\* a second application accepted after the rejection of the first, and then
\* approved: the list holds the REJECTED record followed by the APPROVED one
C37_Witness ==
    \E p \in Procs, q \in Procs :
        /\ Done(p, "ApplyToGroup") /\ result[p] = OK
        /\ HasRejected(local[p], call[p].uid)
        /\ Done(q, "ApproveApplication") /\ result[q] = OK /\ call[q].approve
        /\ call[q].gid = call[p].gid /\ call[q].uid = call[p].uid
        /\ groups[call[p].gid].applications =
              <<[user_id |-> call[p].uid, status |-> ApplicationStatusRejected],
                [user_id |-> call[p].uid, status |-> ApplicationStatusApproved]>>

\* the locking read of p's transaction is answered while the groups table
\* has no row of the group ID
ReadsMissingGroup(p) ==
    /\ pc[p] = "begin" /\ call[p].op \in MutatingOps
    /\ ~Exists(call[p].gid)
    /\ pc'[p] # "begin"

\* C38: JoinGroup, ApplyToGroup and ApproveApplication on a group ID that
\* does not exist fail GroupNotFound (or with the storage error of a failed
\* read) and create no membership row, no application and no cache
\* deletion.
C38_MissingGroupNotFound ==
    [][\A p \in Procs :
          /\ ReadsMissingGroup(p) =>
                /\ pc'[p] = "done"
                /\ result'[p] \in {ErrGroupNotFound, ErrStorage}
                /\ result'[p] = ErrStorage => failedAt'[p] = "GetGroupWithLock"
                /\ Untouched
                /\ members[call[p].gid] = <<>>
          /\ (pc[p] = "done" /\ result[p] = ErrGroupNotFound) =>
                cacheDels'[p] = 0]_vars

\* an application and a decision, both turned away for a group ID of which
\* there is no row
C38_Witness ==
    \E p \in Procs, q \in Procs :
        /\ Done(p, "ApplyToGroup") /\ result[p] = ErrGroupNotFound
        /\ Done(q, "ApproveApplication") /\ result[q] = ErrGroupNotFound
        /\ call[p].gid = call[q].gid
        /\ ~Exists(call[p].gid) /\ members[call[p].gid] = <<>>
        /\ cacheDels[p] = 0 /\ cacheDels[q] = 0

\* C39: concurrent IncrementGroupsJoined, IncrementGroupsCreated and
\* IncrementGroupsCompleted calls for one user lose no update: the stored
\* value of each counter has grown by exactly the number of completed
\* increments of that counter, so no increment overwrites a concurrent one
\* of the same or of another counter.
C39_NoLostUpdate ==
    \A c \in Counters : stats[c] = tally.done[c]

\* the tags of a list, as a set
TagSet(t) == {t[i] : i \in 1..Len(t)}

\* score x is the quotient n / d
IsQuotient(x, n, d) == x.den > 0 /\ x.num * d = n * x.den

\* C23: for all tag lists a and b, duplicates allowed,
\* CalculateJaccardScore(a, b) is |set(a) \cap set(b)| / |set(a) \cup set(b)|
\* and 0 when both are empty, so duplicates change nothing; in particular
\* the score of [go,rust],[go,rust] is 1, of [],[] is 0, of [go],[rust] is 0
\* and of [go,rust],[go] is 1/2.
C23_JaccardOfSets ==
    jaccard.done =>
        LET A == TagSet(jaccard.a)
            B == TagSet(jaccard.b)
        IN  /\ IF A \cup B = {} THEN IsQuotient(jaccard, 0, 1)
               ELSE IsQuotient(jaccard, Cardinality(A \cap B), Cardinality(A \cup B))
            /\ jaccard.a = <<"go", "rust">> /\ jaccard.b = <<"go", "rust">>
                  => IsQuotient(jaccard, 1, 1)
            /\ jaccard.a = <<>> /\ jaccard.b = <<>> => IsQuotient(jaccard, 0, 1)
            /\ jaccard.a = <<"go">> /\ jaccard.b = <<"rust">> => IsQuotient(jaccard, 0, 1)
            /\ jaccard.a = <<"go", "rust">> /\ jaccard.b = <<"go">>
                  => IsQuotient(jaccard, 1, 2)

\* lists with duplicates on both sides scored 1/2
C23_Witness ==
    /\ jaccard.done
    /\ jaccard.a = <<"go", "rust", "go">> /\ jaccard.b = <<"go", "go">>
    /\ IsQuotient(jaccard, 1, 2)

\* the candidate list the request of the state gets from the table
Candidates == FindGroupsByTags(table, req.tags, req)

\* position of the group with the given id in list c
Position(c, id) == CHOOSE i \in 1..Len(c) : c[i].id = id

Greater(x, y) == x.num * y.den > y.num * x.den
SameScore(x, y) == x.num * y.den = y.num * x.den

\* C24: the list FindMatches returns is a permutation of the candidate list,
\* one entry per candidate with that candidate's score, none lost or
\* duplicated, ordered by score descending: of two adjacent entries the
\* earlier score is greater than or equal to the later.
C24_SortedPermutation ==
    matches.done =>
        LET m == matches.list
            c == Candidates
        IN  /\ Len(m) = Len(c)
            /\ \A i \in 1..Len(c) :
                  Cardinality({j \in 1..Len(m) : m[j].group = c[i]}) = 1
            /\ \A j \in 1..Len(m) :
                  SameScore(m[j].score, CalculateJaccardScore(req.tags, m[j].group.tags))
            /\ \A j \in 1..(Len(m) - 1) : ~Greater(m[j + 1].score, m[j].score)

\* three candidates of three different scores that the query returned in
\* ascending order of score
C24_Witness ==
    /\ matches.done /\ Len(matches.list) = 3
    /\ LET m == matches.list
           c == Candidates
       IN  /\ m[1].group = c[3] /\ m[2].group = c[2] /\ m[3].group = c[1]
           /\ Greater(m[1].score, m[2].score) /\ Greater(m[2].score, m[3].score)

\* C25: among candidates of equal score FindMatches keeps the order in which
\* the candidate query returned them.
C25_StableOrder ==
    matches.done =>
        LET m == matches.list
            c == Candidates
        IN  \A i \in 1..Len(m), j \in 1..Len(m) :
                i < j /\ SameScore(m[i].score, m[j].score)
                    => Position(c, m[i].group.id) < Position(c, m[j].group.id)

\* two candidates of equal score overtaken by a third of higher score that
\* the query returned last
C25_Witness ==
    /\ matches.done /\ Len(matches.list) = 3
    /\ LET m == matches.list
           c == Candidates
       IN  /\ m[1].group = c[3] /\ m[2].group = c[1] /\ m[3].group = c[2]
           /\ Greater(m[1].score, m[2].score)
           /\ SameScore(m[2].score, m[3].score)

\* C26: every group discovery returns has status OPEN and current_count <
\* capacity, shares a tag with the user's tags when that list is not empty,
\* and has the requested join type when the filter is set; a CLOSED or full
\* group is never returned.
C26_OnlyOpenMatchingGroups ==
    matches.done =>
        \A j \in 1..Len(matches.list) :
            LET g == matches.list[j].group IN
            /\ g.status = StatusOpen
            /\ g.current_count < g.capacity
            /\ req.tags # <<>> => TagSet(g.tags) \cap TagSet(req.tags) # {}
            /\ req.join_type # "" => g.join_type = req.join_type
            /\ \E i \in 1..Len(table) : table[i] = g

\* a request with tags and a join type answered with one group, from a table
\* that also holds a CLOSED and full group with the same tags and join type
C26_Witness ==
    /\ matches.done /\ Len(matches.list) = 1 /\ Len(table) = 2
    /\ req.tags # <<>> /\ req.join_type # ""
    /\ \E i \in 1..2 :
          /\ table[i].status = StatusClosed
          /\ table[i].current_count = table[i].capacity
          /\ table[i].tags = matches.list[1].group.tags
          /\ table[i].join_type = req.join_type

\* C27: the number of groups returned by DiscoverGroups is at most
\* filters.limit, taken as 50 when the limit is 0, and never more than 100
\* whatever limit the caller passes.
C27_AtMostLimit ==
    matches.done =>
        /\ Len(matches.list) <= Limit(req)
        /\ Len(matches.list) <= MaxLimit
====
